---- MODULE Spec2Model ----
(***************************************************************************)
(* A model of the chess rules engine: the Board (a grid of optional        *)
(* pieces with bounds-checked access, relocation and the reversible        *)
(* temporal move), the movement rules, and the check / checkmate search.   *)
(*                                                                         *)
(* Three specifications share the variables:                               *)
(*   Spec          the Board's operations, called one after another on a   *)
(*                 small board; temporal_move is split into its entry and  *)
(*                 its exit, with a callback that leaves the board alone.  *)
(*   TemporalSpec  temporal moves whose callbacks run further temporal     *)
(*                 moves, from every board of a small grid.                *)
(*   CheckSpec     is_check and is_mate evaluated on positions drawn from  *)
(*                 the test positions (8x8) and from small boards.         *)
(***************************************************************************)
EXTENDS Integers, Sequences, FiniteSets, TLC

VARIABLES board, info, n_rows, n_cols, stack, last, probe

vars == <<board, info, n_rows, n_cols, stack, last, probe>>

(***************************************************************************)
(* Bounds of the model.                                                    *)
(***************************************************************************)
\* most pieces the operations of Spec put on the board
MaxPieces == 2
\* deepest nesting of temporal moves explored in TemporalSpec
MaxDepth == 2

(***************************************************************************)
(* Program constants.                                                      *)
(***************************************************************************)
ROWS == 8
COLS == 8

White == "White"
Black == "Black"
Colors == {White, Black}

King == "King"
Queen == "Queen"
Rook == "Rook"
Bishop == "Bishop"
Knight == "Knight"
Pawn == "Pawn"

\* Option<T>: None is the empty sequence, Some(x) the one-element sequence.
None == <<>>
Some(x) == <<x>>
IsSome(o) == o # <<>>
Unwrap(o) == o[1]

Coord(r, c) == [row |-> r, col |-> c]

\* impl Add for Coord
CoordAdd(a, b) == [row |-> a.row + b.row, col |-> a.col + b.col]

Piece(color, type, coord) ==
    [color |-> color, piece |-> type, coord |-> coord, has_moved |-> FALSE]

opposite(color) == IF color = White THEN Black ELSE White

(***************************************************************************)
(* Board: the matrix is a function from the cells of the grid to           *)
(* Option<Piece>.                                                          *)
(***************************************************************************)
Cells(nr, nc) == {Coord(r, c) : r \in 0..(nr - 1), c \in 0..(nc - 1)}

\* Board::new
NewBoard(nr, nc) == [c \in Cells(nr, nc) |-> None]

\* BoardInfo::default
DefaultInfo ==
    [turn |-> White, castling |-> <<>>, en_passant |-> None,
     halfmove_clock |-> 0, fullmove_number |-> 1]

\* Board::in_bounds; the grid's extent is read off the matrix
in_bounds(b, coord) == coord \in DOMAIN b

\* Board::get_piece / get_piece_mut: Err(OutOfBoundsError) or Ok(cell)
get_piece(b, coord) ==
    IF ~in_bounds(b, coord)
    THEN [ok |-> FALSE, cell |-> None]
    ELSE [ok |-> TRUE, cell |-> b[coord]]

\* Board::set_piece: indexes the matrix by the piece's own coordinate; an index
\* outside the matrix panics.
set_piece(b, piece) ==
    IF ~in_bounds(b, piece.coord)
    THEN [panic |-> TRUE, board |-> b]
    ELSE [panic |-> FALSE, board |-> [b EXCEPT ![piece.coord] = Some(piece)]]

\* Board::remove_piece
remove_piece(b, coord) ==
    IF ~in_bounds(b, coord)
    THEN [panic |-> TRUE, board |-> b]
    ELSE [panic |-> FALSE, board |-> [b EXCEPT ![coord] = None]]

\* move_to_coord forgetting to stamp the moved piece with its new coordinate
MutMoveNoStamp(b, from, to) ==
    IF ~in_bounds(b, from)
    THEN [panic |-> TRUE, board |-> b, old |-> None]
    ELSE LET b1 == [b EXCEPT ![from] = None]
         IN  IF ~in_bounds(b, to)
             THEN [panic |-> TRUE, board |-> b1, old |-> None]
             ELSE [panic |-> FALSE,
                   board |-> [b1 EXCEPT ![to] = b[from]],
                   old |-> b1[to]]

\* move_to_coord returning nothing, the piece taken off to being dropped
MutMoveDropOld(b, from, to) ==
    IF ~in_bounds(b, from)
    THEN [panic |-> TRUE, board |-> b, old |-> None]
    ELSE LET piece == IF IsSome(b[from])
                      THEN Some([Unwrap(b[from]) EXCEPT !.coord = to])
                      ELSE None
             b1 == [b EXCEPT ![from] = None]
         IN  IF ~in_bounds(b, to)
             THEN [panic |-> TRUE, board |-> b1, old |-> None]
             ELSE [panic |-> FALSE,
                   board |-> [b1 EXCEPT ![to] = piece],
                   old |-> None]

\* Board::move_to_coord: take the piece off from, stamp it with to, take what
\* stood on to, put the piece there, return what was taken off to.  The index of
\* from is evaluated first: a from outside the matrix panics with nothing
\* changed, a to outside panics after from has been emptied.
move_to_coord(b, from, to) ==
    IF ~in_bounds(b, from)
    THEN [panic |-> TRUE, board |-> b, old |-> None]
    ELSE LET piece == IF IsSome(b[from])
                      THEN Some([Unwrap(b[from]) EXCEPT !.coord = to])
                      ELSE None
             b1 == [b EXCEPT ![from] = None]
         IN  IF ~in_bounds(b, to)
             THEN [panic |-> TRUE, board |-> b1, old |-> None]
             ELSE [panic |-> FALSE,
                   board |-> [b1 EXCEPT ![to] = piece],
                   old |-> b1[to]]

\* temporal_move never putting the captured piece back
MutTmUndoNoRestore(b, from, to, to_piece) == move_to_coord(b, to, from).board

\* temporal_move putting the captured piece back before moving back
MutTmUndoRestoreFirst(b, from, to, to_piece) ==
    LET b1 == IF IsSome(to_piece) THEN [b EXCEPT ![to] = to_piece] ELSE b
    IN  move_to_coord(b1, to, from).board

\* Board::temporal_move, first half: the move, before the callback runs
TmApply(b, from, to) == move_to_coord(b, from, to)

\* Board::temporal_move, second half: after the callback, move back and put a
\* captured piece back on to
TmUndo(b, from, to, to_piece) ==
    LET back == move_to_coord(b, to, from)
    IN  IF back.panic THEN back.board
        ELSE IF IsSome(to_piece)
             THEN [back.board EXCEPT ![to] = to_piece]
             ELSE back.board

\* Move::move_piece (the trait's default method)
move_piece(b, from, to) ==
    LET got == get_piece(b, from)
    IN  IF ~got.ok \/ ~IsSome(got.cell)
        THEN [panic |-> FALSE, board |-> b]
        ELSE LET from_piece == [Unwrap(got.cell) EXCEPT !.coord = to,
                                                        !.has_moved = TRUE]
                 placed == set_piece(b, from_piece)
             IN  IF placed.panic THEN placed
                 ELSE remove_piece(placed.board, from)

\* Board::get_all_pieces: the pieces of one colour in scan order (row-major)
RECURSIVE ScanFrom(_, _, _, _, _)
ScanFrom(b, nr, nc, color, k) ==
    IF k >= nr * nc THEN <<>>
    ELSE LET cell == b[Coord(k \div nc, k % nc)]
         IN  (IF IsSome(cell) /\ Unwrap(cell).color = color
              THEN <<Unwrap(cell)>> ELSE <<>>) \o ScanFrom(b, nr, nc, color, k + 1)

get_all_pieces(b, nr, nc, color) == ScanFrom(b, nr, nc, color, 0)

PiecesOn(b) == {c \in DOMAIN b : IsSome(b[c])}

\* Board::get_rows / get_cols
get_rows(b) == Cardinality({c.row : c \in DOMAIN b})
get_cols(b) == Cardinality({c.col : c \in DOMAIN b})

\* Board::is_pawn_row
is_pawn_row(b, row, color) ==
    IF color = White THEN row = get_rows(b) - 2 ELSE row = 1

\* Board::get_king: the first king of the colour in scan order; the code ends
\* in unreachable!() when there is none
HasKing(b, color) ==
    \E c \in DOMAIN b :
        IsSome(b[c]) /\ Unwrap(b[c]).color = color /\ Unwrap(b[c]).piece = King

RECURSIVE FirstKing(_, _)
FirstKing(pieces, k) ==
    IF pieces[k].piece = King THEN pieces[k] ELSE FirstKing(pieces, k + 1)

get_king(b, color) ==
    FirstKing(get_all_pieces(b, get_rows(b), get_cols(b), color), 1)

(***************************************************************************)
(* Directions.                                                             *)
(***************************************************************************)
Orthogonals == <<"North", "South", "East", "West">>
Diagonals == <<"NorthEast", "NorthWest", "SouthEast", "SouthWest">>

\* Direction::get_step
get_step(d) ==
    CASE d = "North" -> Coord(1, 0)
      [] d = "South" -> Coord(0 - 1, 0)
      [] d = "East" -> Coord(0, 1)
      [] d = "West" -> Coord(0, 0 - 1)
      [] d = "NorthWest" -> Coord(1, 0 - 1)
      [] d = "NorthEast" -> Coord(1, 1)
      [] d = "SouthWest" -> Coord(0 - 1, 0 - 1)
      [] d = "SouthEast" -> Coord(0 - 1, 1)

\* a parse that names the two anti-diagonal directions the wrong way round
MutParseSwapsAntiDiagonal(from, to) ==
    LET row_diff == to.row - from.row
        col_diff == to.col - from.col
    IN  IF row_diff = 0 /\ col_diff = 0 THEN [ok |-> FALSE, dir |-> "SameOriginDestiny"]
        ELSE IF row_diff = 0
             THEN [ok |-> TRUE, dir |-> IF col_diff > 0 THEN "East" ELSE "West"]
        ELSE IF col_diff = 0
             THEN [ok |-> TRUE, dir |-> IF row_diff > 0 THEN "North" ELSE "South"]
        ELSE IF row_diff = col_diff
             THEN [ok |-> TRUE, dir |-> IF row_diff > 0 THEN "NorthEast" ELSE "SouthWest"]
        ELSE IF row_diff = 0 - col_diff
             THEN [ok |-> TRUE, dir |-> IF row_diff > 0 THEN "SouthEast" ELSE "NorthWest"]
        ELSE [ok |-> FALSE, dir |-> "InvalidDirection"]

\* parse_direction: Ok(direction), Err(SameOriginDestiny) or Err(InvalidDirection)
parse_direction(from, to) ==
    LET row_diff == to.row - from.row
        col_diff == to.col - from.col
    IN  IF row_diff = 0 /\ col_diff = 0 THEN [ok |-> FALSE, dir |-> "SameOriginDestiny"]
        ELSE IF row_diff = 0
             THEN [ok |-> TRUE, dir |-> IF col_diff > 0 THEN "East" ELSE "West"]
        ELSE IF col_diff = 0
             THEN [ok |-> TRUE, dir |-> IF row_diff > 0 THEN "North" ELSE "South"]
        ELSE IF row_diff = col_diff
             THEN [ok |-> TRUE, dir |-> IF row_diff > 0 THEN "NorthEast" ELSE "SouthWest"]
        ELSE IF row_diff = 0 - col_diff
             THEN [ok |-> TRUE, dir |-> IF row_diff > 0 THEN "NorthWest" ELSE "SouthEast"]
        ELSE [ok |-> FALSE, dir |-> "InvalidDirection"]

\* Board::max_cells_direction
max_cells_direction(b, d) ==
    IF d \in {"North", "South"} THEN get_rows(b)
    ELSE IF d \in {"East", "West"} THEN get_cols(b)
    ELSE IF get_rows(b) >= get_cols(b) THEN get_rows(b) ELSE get_cols(b)

Abs(x) == IF x < 0 THEN 0 - x ELSE x

(***************************************************************************)
(* Movement rules.  A rule is a record [kind, max_range]; max_range is the  *)
(* Option<u32> of Line, Diagonal and Castle.                               *)
(***************************************************************************)
JumpFirst == 2
JumpSecond == 1
CastleMaxRange == 2

LineRule(max_range) == [kind |-> "Line", max_range |-> max_range]
DiagonalRule(max_range) == [kind |-> "Diagonal", max_range |-> max_range]
JumpRule == [kind |-> "Jump", max_range |-> None]
PawnRule == [kind |-> "PawnMove", max_range |-> None]
CastleRule(max_range) == [kind |-> "Castle", max_range |-> max_range]

\* Piece::new_king, new_queen, new_rook, new_bishop, new_knight, new_pawn: the
\* rules a piece of each type is built with
Moves(type) ==
    CASE type = King -> <<LineRule(Some(1)), DiagonalRule(Some(1)), CastleRule(Some(2))>>
      [] type = Queen -> <<LineRule(None), DiagonalRule(None)>>
      [] type = Rook -> <<LineRule(None)>>
      [] type = Bishop -> <<DiagonalRule(None)>>
      [] type = Knight -> <<JumpRule>>
      [] type = Pawn -> <<PawnRule>>

\* Option::unwrap_or
UnwrapOr(o, default) == IF IsSome(o) THEN Unwrap(o) ELSE default

\* a traversal that passes over the pieces of the other colour
RECURSIVE MutTraversePassEnemy(_, _, _, _, _, _)
MutTraversePassEnemy(b, color, cur, to, step, n) ==
    IF n = 0 THEN FALSE
    ELSE LET next_coord == CoordAdd(cur, step)
         IN  IF ~in_bounds(b, next_coord) THEN FALSE
             ELSE IF next_coord = to
                  THEN IF IsSome(b[next_coord])
                       THEN Unwrap(b[next_coord]).color # color
                       ELSE TRUE
             ELSE IF IsSome(b[next_coord]) /\ Unwrap(b[next_coord]).color = color THEN FALSE
             ELSE MutTraversePassEnemy(b, color, next_coord, to, step, n - 1)

\* the traversal loop of Line::is_move_valid and of util::can_traverse: up to n
\* steps from cur; the target reached is valid when empty or of the other
\* colour, any piece met before it blocks, leaving the board fails
RECURSIVE Traverse(_, _, _, _, _, _)
Traverse(b, color, cur, to, step, n) ==
    IF n = 0 THEN FALSE
    ELSE LET next_coord == CoordAdd(cur, step)
         IN  IF ~in_bounds(b, next_coord) THEN FALSE
             ELSE IF next_coord = to
                  THEN IF IsSome(b[next_coord])
                       THEN Unwrap(b[next_coord]).color # color
                       ELSE TRUE
             ELSE IF IsSome(b[next_coord]) THEN FALSE
             ELSE Traverse(b, color, next_coord, to, step, n - 1)

\* util::can_traverse
can_traverse(b, from_piece, to, step, max_range) ==
    Traverse(b, from_piece.color, from_piece.coord, to, step, max_range)

\* Line::is_move_valid
LineIsMoveValid(rule, from, to, b) ==
    LET got == get_piece(b, from)
        parsed == parse_direction(from, to)
    IN  IF ~got.ok \/ ~IsSome(got.cell) THEN FALSE
        ELSE IF ~parsed.ok THEN FALSE
        ELSE IF parsed.dir \notin {"North", "South", "East", "West"} THEN FALSE
        ELSE Traverse(b, Unwrap(got.cell).color, from, to, get_step(parsed.dir),
                      UnwrapOr(rule.max_range, max_cells_direction(b, parsed.dir)))

\* Diagonal::is_move_valid
DiagonalIsMoveValid(rule, from, to, b) ==
    LET got == get_piece(b, from)
        parsed == parse_direction(from, to)
    IN  IF ~got.ok \/ ~IsSome(got.cell) THEN FALSE
        ELSE IF ~parsed.ok THEN FALSE
        ELSE IF parsed.dir \notin {"NorthEast", "NorthWest", "SouthEast", "SouthWest"}
             THEN FALSE
        ELSE can_traverse(b, Unwrap(got.cell), to, get_step(parsed.dir),
                          UnwrapOr(rule.max_range, max_cells_direction(b, parsed.dir)))

\* the inner loop of Line::allowed_moves and Diagonal::allowed_moves (and
\* util::legal_coords_along_direction): the cells along one direction, up to and
\* including the first enemy piece, stopping before a friendly one
RECURSIVE AlongDirection(_, _, _, _, _)
AlongDirection(b, color, cur, step, n) ==
    IF n = 0 THEN <<>>
    ELSE LET next_coord == CoordAdd(cur, step)
         IN  IF ~in_bounds(b, next_coord) THEN <<>>
             ELSE IF IsSome(b[next_coord])
                  THEN IF Unwrap(b[next_coord]).color # color
                       THEN <<next_coord>> ELSE <<>>
             ELSE <<next_coord>> \o AlongDirection(b, color, next_coord, step, n - 1)

RECURSIVE AlongDirections(_, _, _, _, _, _)
AlongDirections(rule, dirs, k, from, color, b) ==
    IF k > Len(dirs) THEN <<>>
    ELSE AlongDirection(b, color, from, get_step(dirs[k]),
                        UnwrapOr(rule.max_range, max_cells_direction(b, dirs[k])))
            \o AlongDirections(rule, dirs, k + 1, from, color, b)

\* Line::allowed_moves
LineAllowedMoves(rule, from, b) ==
    LET got == get_piece(b, from)
    IN  IF ~got.ok \/ ~IsSome(got.cell) THEN <<>>
        ELSE AlongDirections(rule, Orthogonals, 1, from, Unwrap(got.cell).color, b)

\* Diagonal::allowed_moves
DiagonalAllowedMoves(rule, from, b) ==
    LET got == get_piece(b, from)
    IN  IF ~got.ok \/ ~IsSome(got.cell) THEN <<>>
        ELSE AlongDirections(rule, Diagonals, 1, from, Unwrap(got.cell).color, b)

\* a range test that accepts one order of the two deltas only
MutJumpRangeOneOrder(from, to) ==
    Abs(to.row - from.row) = JumpFirst /\ Abs(to.col - from.col) = JumpSecond

\* Jump::is_jump_in_range
is_jump_in_range(from, to) ==
    LET rows == Abs(to.row - from.row)
        cols == Abs(to.col - from.col)
    IN  (rows = JumpFirst /\ cols = JumpSecond) \/ (rows = JumpSecond /\ cols = JumpFirst)

\* Jump::is_move_valid
JumpIsMoveValid(from, to, b) ==
    LET got == get_piece(b, from)
        target == get_piece(b, to)
    IN  IF ~got.ok \/ ~IsSome(got.cell) THEN FALSE
        ELSE IF ~is_jump_in_range(from, to) THEN FALSE
        ELSE IF ~target.ok THEN FALSE
        ELSE IF ~IsSome(target.cell) THEN TRUE
        ELSE Unwrap(got.cell).color # Unwrap(target.cell).color

\* Jump::allowed_moves, its eight candidates in the order of the masks
JumpCandidates(from) ==
    <<Coord(from.row - JumpFirst, from.col + JumpSecond),
      Coord(from.row - JumpFirst, from.col - JumpSecond),
      Coord(from.row + JumpSecond, from.col - JumpFirst),
      Coord(from.row - JumpSecond, from.col - JumpFirst),
      Coord(from.row + JumpSecond, from.col + JumpFirst),
      Coord(from.row - JumpSecond, from.col + JumpFirst),
      Coord(from.row + JumpFirst, from.col + JumpSecond),
      Coord(from.row + JumpFirst, from.col - JumpSecond)>>

\* a collection of the candidates that keeps the cells held by a friendly piece
RECURSIVE MutJumpKeepFriendly(_, _, _, _, _)
MutJumpKeepFriendly(cands, k, color, b, seen) ==
    IF k > Len(cands) THEN <<>>
    ELSE LET to == cands[k]
             keep == to \notin seen /\ in_bounds(b, to)
         IN  (IF keep THEN <<to>> ELSE <<>>)
                \o MutJumpKeepFriendly(cands, k + 1, color, b, seen \cup {to})

\* the candidates kept by Jump::allowed_moves, each once (they are collected in
\* a HashSet)
RECURSIVE JumpKeep(_, _, _, _, _)
JumpKeep(cands, k, color, b, seen) ==
    IF k > Len(cands) THEN <<>>
    ELSE LET to == cands[k]
             keep == /\ to \notin seen
                     /\ in_bounds(b, to)
                     /\ (IsSome(b[to]) => Unwrap(b[to]).color # color)
         IN  (IF keep THEN <<to>> ELSE <<>>)
                \o JumpKeep(cands, k + 1, color, b, seen \cup {to})

\* Jump::allowed_moves; the Vec is drained from a HashSet, so its order is any
JumpAllowedMoves(from, b) ==
    LET got == get_piece(b, from)
    IN  IF ~got.ok \/ ~IsSome(got.cell) THEN <<>>
        ELSE JumpKeep(JumpCandidates(from), 1, Unwrap(got.cell).color, b, {})

\* PawnMove::check_one_forward_step; with to outside the board the code ends in
\* unreachable!(), see PawnStepPanics
check_one_forward_step(from, to, b) ==
    IF to.col # from.col THEN FALSE
    ELSE LET got == get_piece(b, to)
         IN  got.ok /\ ~IsSome(got.cell)

PawnStepPanics(from, to, b) == to.col = from.col /\ ~in_bounds(b, to)

\* PawnMove::check_two_forward_steps: both rounds of the loop test the cell one
\* step ahead of the pawn
check_two_forward_steps(from_piece, step, b) ==
    IF ~is_pawn_row(b, from_piece.coord.row, from_piece.color) THEN FALSE
    ELSE /\ check_one_forward_step(from_piece.coord, CoordAdd(from_piece.coord, step), b)
         /\ check_one_forward_step(from_piece.coord, CoordAdd(from_piece.coord, step), b)

\* PawnMove::check_en_passant
check_en_passant(to, inf) == IsSome(inf.en_passant) /\ Unwrap(inf.en_passant) = to

\* PawnMove::check_capture
check_capture(from_piece, to, b, inf) ==
    LET got == get_piece(b, to)
    IN  IF ~got.ok THEN FALSE
        ELSE IF ~IsSome(got.cell) THEN check_en_passant(to, inf)
        ELSE Unwrap(got.cell).color # from_piece.color

\* the directions PawnMove lets a colour move in
PawnDirections(color) ==
    IF color = Black THEN <<"South", "SouthEast", "SouthWest">>
    ELSE <<"North", "NorthEast", "NorthWest">>

\* PawnMove::is_move_valid
PawnIsMoveValid(from, to, b, inf) ==
    LET got == get_piece(b, from)
        parsed == parse_direction(from, to)
        row_dis == Abs(from.row - to.row)
        col_dis == Abs(from.col - to.col)
    IN  IF ~got.ok \/ ~IsSome(got.cell) THEN FALSE
        ELSE IF ~parsed.ok THEN FALSE
        ELSE IF \A k \in 1..3 : PawnDirections(Unwrap(got.cell).color)[k] # parsed.dir
             THEN FALSE
        ELSE IF col_dis = 1 /\ row_dis = 1
             THEN check_capture(Unwrap(got.cell), to, b, inf)
        ELSE IF col_dis # 0 THEN FALSE
        ELSE IF row_dis = 1 THEN check_one_forward_step(from, to, b)
        ELSE IF row_dis = 2
             THEN check_two_forward_steps(Unwrap(got.cell), get_step(parsed.dir), b)
        ELSE FALSE

\* PawnMove::allowed_moves, the destinations pushed for one direction
PawnMovesAlong(d, from, from_piece, b, inf) ==
    LET step == get_step(d)
        next_coord == CoordAdd(from_piece.coord, step)
    IN  IF ~in_bounds(b, next_coord) THEN <<>>
        ELSE (IF d \in {"North", "South"}
              THEN (IF check_one_forward_step(from, next_coord, b)
                    THEN <<next_coord>> ELSE <<>>)
                   \o (IF check_two_forward_steps(from_piece, step, b)
                       THEN <<CoordAdd(next_coord, step)>> ELSE <<>>)
              ELSE (IF check_capture(from_piece, next_coord, b, inf)
                    THEN <<next_coord>> ELSE <<>>))
             \o (IF IsSome(inf.en_passant) /\ Unwrap(inf.en_passant) = next_coord
                 THEN <<next_coord>> ELSE <<>>)

\* PawnMove::allowed_moves
PawnAllowedMoves(from, b, inf) ==
    LET got == get_piece(b, from)
    IN  IF ~got.ok \/ ~IsSome(got.cell) THEN <<>>
        ELSE LET from_piece == Unwrap(got.cell)
                 dirs == PawnDirections(from_piece.color)
             IN  PawnMovesAlong(dirs[1], from, from_piece, b, inf)
                    \o PawnMovesAlong(dirs[2], from, from_piece, b, inf)
                    \o PawnMovesAlong(dirs[3], from, from_piece, b, inf)

(***************************************************************************)
(* Pieces, the check evaluator and the Castle rule.  The rules' validity,   *)
(* the check search and Castle call one another.                           *)
(***************************************************************************)
RECURSIVE is_move_valid(_, _, _, _, _)

\* Piece::can_move: some rule of the piece accepts the move from the piece's
\* stored coordinate
can_move(piece, coord, b, inf) ==
    \E k \in 1..Len(Moves(piece.piece)) :
        is_move_valid(Moves(piece.piece)[k], piece.coord, coord, b, inf)

\* is_check, the closure ally_in_check: some piece of the enemy list can move
\* onto the ally king's square
ally_in_check(b, inf, enemy_pieces, ally_king_coord) ==
    \E k \in 1..Len(enemy_pieces) : can_move(enemy_pieces[k], ally_king_coord, b, inf)

\* is_check, the loop over ally_pieces from its k-th piece on
RECURSIVE IsCheckFrom(_, _, _, _, _, _, _)
IsCheckFrom(k, coord, b, inf, enemy_pieces, ally_pieces, ally_king_coord) ==
    IF k > Len(ally_pieces) THEN [val |-> "false", board |-> b]
    ELSE LET piece == ally_pieces[k]
         IN  IF ~can_move(piece, coord, b, inf)
             THEN IsCheckFrom(k + 1, coord, b, inf, enemy_pieces, ally_pieces,
                              ally_king_coord)
             ELSE LET moved == TmApply(b, piece.coord, ally_king_coord)
                      is_ally_in_check ==
                          ally_in_check(moved.board, inf, enemy_pieces, ally_king_coord)
                      back == TmUndo(moved.board, piece.coord, ally_king_coord, moved.old)
                  IN  IF ~is_ally_in_check THEN [val |-> "true", board |-> back]
                      ELSE IsCheckFrom(k + 1, coord, back, inf, enemy_pieces,
                                       ally_pieces, ally_king_coord)

\* is_check without its guard on the probed cell: an empty cell is reported
\* as attacked when a piece of either list can move to it
MutIsCheckNoGuard(coord, b, inf, enemy_pieces, ally_pieces) ==
    IF \/ \E k \in 1..Len(ally_pieces) : can_move(ally_pieces[k], coord, b, inf)
       \/ \E k \in 1..Len(enemy_pieces) : can_move(enemy_pieces[k], coord, b, inf)
    THEN [val |-> "true", board |-> b]
    ELSE [val |-> "false", board |-> b]

\* is_check(coord, board, enemy_pieces, ally_pieces): "false" when coord holds
\* no piece, a panic when the other colour has no king (get_king), else the
\* result of the loop; the board is returned as the call leaves it
is_check(coord, b, inf, enemy_pieces, ally_pieces) ==
    LET got == get_piece(b, coord)
    IN  IF ~got.ok \/ ~IsSome(got.cell) THEN [val |-> "false", board |-> b]
        ELSE IF ~HasKing(b, opposite(Unwrap(got.cell).color))
             THEN [val |-> "panic", board |-> b]
        ELSE IsCheckFrom(1, coord, b, inf, enemy_pieces, ally_pieces,
                         get_king(b, opposite(Unwrap(got.cell).color)).coord)

\* the three-argument is_check(coord, board, is_mate_probe) that Castle calls:
\* the piece lists are read off the board; the probe form reports any piece of
\* the other colour that can move to coord
is_check_probe(coord, b, inf, is_mate_probe) ==
    LET got == get_piece(b, coord)
    IN  IF ~got.ok \/ ~IsSome(got.cell) THEN FALSE
        ELSE LET color == Unwrap(got.cell).color
                 enemy_pieces == get_all_pieces(b, get_rows(b), get_cols(b), color)
                 ally_pieces ==
                     get_all_pieces(b, get_rows(b), get_cols(b), opposite(color))
             IN  IF is_mate_probe
                 THEN \E k \in 1..Len(ally_pieces) :
                          can_move(ally_pieces[k], coord, b, inf)
                 ELSE is_check(coord, b, inf, enemy_pieces, ally_pieces).val = "true"

\* Castle::is_line_clear, the loop from inter_cell on
RECURSIVE LineClearFrom(_, _, _, _)
LineClearFrom(b, inter_cell, rook, step) ==
    IF inter_cell = rook THEN TRUE
    ELSE IF ~in_bounds(b, inter_cell) THEN TRUE
    ELSE IF IsSome(b[inter_cell]) THEN FALSE
    ELSE LineClearFrom(b, CoordAdd(inter_cell, step), rook, step)

\* a line test that takes every path between king and rook for empty
MutLineClearAlways(king, rook, b) == parse_direction(king, rook).ok

\* Castle::is_line_clear
is_line_clear(king, rook, b) ==
    LET parsed == parse_direction(king, rook)
    IN  IF ~parsed.ok THEN FALSE
        ELSE LineClearFrom(b, CoordAdd(king, get_step(parsed.dir)), rook,
                           get_step(parsed.dir))

\* Castle::can_safely_traverse, the cell tested in round i of its loop: the
\* king's cell and the cells after it along the direction from new_king to king
InterCell(king, new_king, i) ==
    LET step == get_step(parse_direction(new_king, king).dir)
    IN  Coord(king.row + i * step.row, king.col + i * step.col)

\* Castle::can_safely_traverse panics (temporal_move indexes the matrix) when
\* a cell it tests lies outside the board and no earlier test has returned
CastleTestPanics(king, new_king, b) ==
    \E i \in 0..CastleMaxRange : ~in_bounds(b, InterCell(king, new_king, i))

\* Castle::can_safely_traverse; its value where the call returns
can_safely_traverse(king, new_king, rook, b, inf) ==
    IF ~parse_direction(new_king, king).ok THEN FALSE
    ELSE IF ~is_line_clear(king, rook, b) THEN FALSE
    ELSE IF ~get_piece(b, king).ok \/ ~IsSome(get_piece(b, king).cell) THEN FALSE
    ELSE \A i \in 0..CastleMaxRange :
            LET inter_cell == InterCell(king, new_king, i)
            IN  /\ in_bounds(b, inter_cell)
                /\ ~is_check_probe(inter_cell, TmApply(b, king, inter_cell).board,
                                   inf, FALSE)

\* the castling rights recorded for a colour (BoardInfo.castling is a map)
RightsOf(inf, color) ==
    IF color \in DOMAIN inf.castling THEN inf.castling[color] ELSE <<>>

\* Castle::is_move_valid: the first right whose king destination is to decides
CastleIsMoveValid(from, to, b, inf) ==
    LET got == get_piece(b, from)
    IN  IF ~got.ok \/ ~IsSome(got.cell) THEN FALSE
        ELSE LET rights == RightsOf(inf, Unwrap(got.cell).color)
                 hits == {k \in 1..Len(rights) : rights[k].new_king = to}
             IN  IF hits = {} THEN FALSE
                 ELSE LET right == rights[CHOOSE k \in hits : \A j \in hits : k <= j]
                      IN  can_safely_traverse(from, to, right.rook, b, inf)

\* Castle::allowed_moves
RECURSIVE CastleKeep(_, _, _, _, _)
CastleKeep(rights, k, from, b, inf) ==
    IF k > Len(rights) THEN <<>>
    ELSE (IF can_safely_traverse(from, rights[k].new_king, rights[k].rook, b, inf)
          THEN <<rights[k].new_king>> ELSE <<>>)
            \o CastleKeep(rights, k + 1, from, b, inf)

CastleAllowedMoves(from, b, inf) ==
    LET got == get_piece(b, from)
    IN  IF ~got.ok \/ ~IsSome(got.cell) THEN <<>>
        ELSE CastleKeep(RightsOf(inf, Unwrap(got.cell).color), 1, from, b, inf)

\* Move::is_move_valid, by rule
is_move_valid(rule, from, to, b, inf) ==
    CASE rule.kind = "Line" -> LineIsMoveValid(rule, from, to, b)
      [] rule.kind = "Diagonal" -> DiagonalIsMoveValid(rule, from, to, b)
      [] rule.kind = "Jump" -> JumpIsMoveValid(from, to, b)
      [] rule.kind = "PawnMove" -> PawnIsMoveValid(from, to, b, inf)
      [] rule.kind = "Castle" -> CastleIsMoveValid(from, to, b, inf)

\* Move::allowed_moves, by rule
allowed_moves(rule, from, b, inf) ==
    CASE rule.kind = "Line" -> LineAllowedMoves(rule, from, b)
      [] rule.kind = "Diagonal" -> DiagonalAllowedMoves(rule, from, b)
      [] rule.kind = "Jump" -> JumpAllowedMoves(from, b)
      [] rule.kind = "PawnMove" -> PawnAllowedMoves(from, b, inf)
      [] rule.kind = "Castle" -> CastleAllowedMoves(from, b, inf)

\* the elements of a sequence
Range(seq) == {seq[k] : k \in 1..Len(seq)}

\* Piece::get_moves: the destinations of all the piece's rules, as a HashSet
get_moves(piece, b, inf) ==
    UNION {Range(allowed_moves(Moves(piece.piece)[k], piece.coord, b, inf)) :
              k \in 1..Len(Moves(piece.piece))}

(***************************************************************************)
(* is_mate.  A simulated move either makes is_mate return false ("return"), *)
(* lets the search go on ("continue") or panics.  Destinations that come    *)
(* out of a HashSet (the king's moves, a Jump's moves) are tried in any     *)
(* order, so is_mate yields the set of results the orders can produce.      *)
(***************************************************************************)
\* is_mate's first loop never taking a king move for an escape
MutKingTryNeverSafe(to_coord, enemy_king, b, inf, enemy_pieces, ally_pieces) ==
    [res |-> "continue", board |-> b]

\* is_mate's first loop with the negation of is_check dropped: a king move
\* counts as safe when the king is in check after it
MutKingTryInverted(to_coord, enemy_king, b, inf, enemy_pieces, ally_pieces) ==
    LET moved == TmApply(b, enemy_king.coord, to_coord)
        chk == is_check(to_coord, moved.board, inf, enemy_pieces, ally_pieces)
    IN  [res |-> IF chk.val = "true" THEN "return" ELSE "continue", board |-> b]

\* is_mate, first loop: the king moved to to_coord, is_tmp_move_safe
KingTry(to_coord, enemy_king, b, inf, enemy_pieces, ally_pieces) ==
    LET moved == TmApply(b, enemy_king.coord, to_coord)
    IN  IF moved.panic THEN [res |-> "panic", board |-> moved.board]
        ELSE LET chk == is_check(to_coord, moved.board, inf, enemy_pieces, ally_pieces)
             IN  IF chk.val = "panic" THEN [res |-> "panic", board |-> chk.board]
                 ELSE [res |-> IF chk.val = "false" THEN "return" ELSE "continue",
                       board |-> TmUndo(chk.board, enemy_king.coord, to_coord, moved.old)]

\* is_mate, second loop: a piece moved to to_coord, tmp_block_capture
BlockTry(to_coord, piece, coord, b, inf, enemy_pieces, ally_pieces) ==
    LET moved == TmApply(b, piece.coord, to_coord)
    IN  IF moved.panic THEN [res |-> "panic", board |-> moved.board]
        ELSE LET chk == is_check(coord, moved.board, inf, enemy_pieces, ally_pieces)
             IN  IF chk.val = "panic" THEN [res |-> "panic", board |-> chk.board]
                 ELSE [res |-> IF chk.val = "false" THEN "return" ELSE "continue",
                       board |-> TmUndo(chk.board, piece.coord, to_coord, moved.old)]

\* is_mate, second loop: the destinations of one rule tried in the Vec's order
RECURSIVE BlockLoop(_, _, _, _, _, _, _, _)
BlockLoop(dests, k, piece, coord, b, inf, enemy_pieces, ally_pieces) ==
    IF k > Len(dests) THEN [res |-> "continue", board |-> b]
    ELSE LET try == BlockTry(dests[k], piece, coord, b, inf, enemy_pieces, ally_pieces)
         IN  IF try.res # "continue" THEN try
             ELSE BlockLoop(dests, k + 1, piece, coord, try.board, inf,
                            enemy_pieces, ally_pieces)

\* is_mate, second loop: the (piece, rule) pairs in the order they are visited,
\* the piece standing on coord skipped
RECURSIVE RulesOf(_, _)
RulesOf(piece, k) ==
    IF k > Len(Moves(piece.piece)) THEN <<>>
    ELSE <<[piece |-> piece, rule |-> Moves(piece.piece)[k]]>> \o RulesOf(piece, k + 1)

RECURSIVE Defences(_, _, _)
Defences(enemy_pieces, k, coord) ==
    IF k > Len(enemy_pieces) THEN <<>>
    ELSE (IF enemy_pieces[k].coord = coord THEN <<>> ELSE RulesOf(enemy_pieces[k], 1))
            \o Defences(enemy_pieces, k + 1, coord)

\* the results one (piece, rule) pair can produce
DefenceOutcomes(d, coord, b, inf, enemy_pieces, ally_pieces) ==
    LET dests == allowed_moves(d.rule, d.piece.coord, b, inf)
    IN  IF d.rule.kind = "Jump" /\ dests # <<>>
        THEN {BlockTry(to_coord, d.piece, coord, b, inf, enemy_pieces, ally_pieces) :
                  to_coord \in Range(dests)}
        ELSE {BlockLoop(dests, 1, d.piece, coord, b, inf, enemy_pieces, ally_pieces)}

\* is_mate with its second loop leaving out the moves of the other pieces
MutOthersNone(defences, k, coord, b, inf, enemy_pieces, ally_pieces) ==
    {[val |-> "true", phase |-> "end", board |-> b]}

\* is_mate, second loop from the k-th (piece, rule) pair on
RECURSIVE OthersFrom(_, _, _, _, _, _, _)
OthersFrom(defences, k, coord, b, inf, enemy_pieces, ally_pieces) ==
    IF k > Len(defences) THEN {[val |-> "true", phase |-> "end", board |-> b]}
    ELSE LET outs == DefenceOutcomes(defences[k], coord, b, inf, enemy_pieces,
                                     ally_pieces)
         IN  {[val |-> IF o.res = "panic" THEN "panic" ELSE "false",
               phase |-> "others", board |-> o.board] :
                  o \in {x \in outs : x.res # "continue"}}
             \cup (IF \A o \in outs : o.res = "continue"
                   THEN OthersFrom(defences, k + 1, coord, b, inf, enemy_pieces,
                                   ally_pieces)
                   ELSE {})

\* is_mate(coord, board, enemy_pieces, ally_pieces): the set of results
\* [val, phase, board]; phase tells which loop produced the result
is_mate(coord, b, inf, enemy_pieces, ally_pieces) ==
    LET got == get_piece(b, coord)
    IN  IF ~got.ok \/ ~IsSome(got.cell)
        THEN {[val |-> "false", phase |-> "none", board |-> b]}
        ELSE LET enemy_king == Unwrap(got.cell)
                 tries == {KingTry(to_coord, enemy_king, b, inf, enemy_pieces,
                                   ally_pieces) :
                              to_coord \in get_moves(enemy_king, b, inf)}
             IN  {[val |-> IF o.res = "panic" THEN "panic" ELSE "false",
                   phase |-> "king", board |-> o.board] :
                      o \in {x \in tries : x.res # "continue"}}
                 \cup (IF \A o \in tries : o.res = "continue"
                       THEN OthersFrom(Defences(enemy_pieces, 1, coord), 1, coord, b,
                                       inf, enemy_pieces, ally_pieces)
                       ELSE {})

(***************************************************************************)
(* Spec: the Board's operations.                                           *)
(***************************************************************************)
\* the sizes Board::new is called with in Spec
BoardSizes == {<<2, 2>>}

\* the (colour, type) pairs set_piece is called with in Spec
PieceKinds == {<<White, Rook>>, <<Black, Pawn>>}

\* one coordinate outside the grid for each way of being outside
OutOfBoundsCoords(nr, nc) ==
    {Coord(0 - 1, 0), Coord(nr, 0), Coord(0, 0 - 1), Coord(0, nc)}

CoordInputs(nr, nc) == Cells(nr, nc) \cup OutOfBoundsCoords(nr, nc)

\* pairs (from, to): both inside the grid, to outside, or from outside
PairInputs(nr, nc) ==
    (Cells(nr, nc) \X CoordInputs(nr, nc))
        \cup (OutOfBoundsCoords(nr, nc) \X {Coord(0, 0)})

NoCoord == Coord(0 - 1, 0 - 1)

\* the last call made: its name and arguments, the board and the GameState it
\* was made on, what it returned and how it ended
NoCall ==
    [op |-> "none", from |-> NoCoord, to |-> NoCoord, pre |-> <<>>,
     pre_info |-> DefaultInfo, ret |-> None, val |-> FALSE, cb |-> FALSE,
     outcome |-> "ok"]

\* no call of the check evaluator yet; pre is the board handed to the call
NoProbe ==
    [op |-> "none", coord |-> NoCoord, res |-> "none", phase |-> "none", pre |-> <<>>]

Init ==
    /\ \E size \in BoardSizes :
          /\ n_rows = size[1]
          /\ n_cols = size[2]
          /\ board = NewBoard(size[1], size[2])
    /\ info = DefaultInfo
    /\ stack = <<>>
    /\ last = NoCall
    /\ probe = NoProbe

\* no panic has ended the program and no temporal move is under way
Idle == last.outcome # "panic" /\ stack = <<>>

Called(op, from, to, ret, outcome) ==
    [NoCall EXCEPT !.op = op, !.from = from, !.to = to, !.pre = board,
                   !.pre_info = info, !.ret = ret, !.outcome = outcome]

SetPiece(piece) ==
    /\ Idle
    /\ \/ ~in_bounds(board, piece.coord)
       \/ Cardinality(PiecesOn(board) \cup {piece.coord}) <= MaxPieces
    /\ LET r == set_piece(board, piece)
       IN  /\ board' = r.board
           /\ last' = Called("set_piece", piece.coord, piece.coord, Some(piece),
                             IF r.panic THEN "panic" ELSE "ok")
    /\ UNCHANGED <<info, n_rows, n_cols, stack, probe>>

RemovePiece(coord) ==
    /\ Idle
    /\ LET r == remove_piece(board, coord)
       IN  /\ board' = r.board
           /\ last' = Called("remove_piece", coord, coord, None,
                             IF r.panic THEN "panic" ELSE "ok")
    /\ UNCHANGED <<info, n_rows, n_cols, stack, probe>>

MoveToCoord(from, to) ==
    /\ Idle
    /\ LET r == move_to_coord(board, from, to)
       IN  /\ board' = r.board
           /\ last' = Called("move_to_coord", from, to, r.old,
                             IF r.panic THEN "panic" ELSE "ok")
    /\ UNCHANGED <<info, n_rows, n_cols, stack, probe>>

GetPiece(coord) ==
    /\ Idle
    /\ LET r == get_piece(board, coord)
       IN  last' = Called("get_piece", coord, coord, r.cell,
                          IF r.ok THEN "ok" ELSE "OutOfBounds")
    /\ UNCHANGED <<board, info, n_rows, n_cols, stack, probe>>

GetPieceMut(coord) ==
    /\ Idle
    /\ LET r == get_piece(board, coord)
       IN  last' = Called("get_piece_mut", coord, coord, r.cell,
                          IF r.ok THEN "ok" ELSE "OutOfBounds")
    /\ UNCHANGED <<board, info, n_rows, n_cols, stack, probe>>

MovePiece(from, to) ==
    /\ Idle
    /\ LET r == move_piece(board, from, to)
       IN  /\ board' = r.board
           /\ last' = Called("move_piece", from, to, None,
                             IF r.panic THEN "panic" ELSE "ok")
    /\ UNCHANGED <<info, n_rows, n_cols, stack, probe>>

\* temporal_move(from, to, cb) up to the call of cb, at nesting depth below
\* depth; with a stack that is not empty it is cb calling temporal_move again
TemporalMoveEnter(from, to, depth) ==
    /\ last.outcome # "panic"
    /\ Len(stack) < depth
    /\ LET r == TmApply(board, from, to)
       IN  /\ board' = r.board
           /\ IF r.panic
              THEN /\ last' = Called("temporal_move", from, to, None, "panic")
                   /\ stack' = stack
              ELSE /\ last' = [NoCall EXCEPT !.op = "callback"]
                   /\ stack' = Append(stack,
                                      [from |-> from, to |-> to,
                                       to_piece |-> r.old, entry |-> board])
    /\ UNCHANGED <<info, n_rows, n_cols, probe>>

\* cb returns v; temporal_move reverses its move and returns cb's value
TemporalMoveExit(v) ==
    /\ last.outcome # "panic"
    /\ stack # <<>>
    /\ LET f == stack[Len(stack)]
           res == v
       IN  /\ board' = TmUndo(board, f.from, f.to, f.to_piece)
           /\ last' = [NoCall EXCEPT !.op = "temporal_move", !.from = f.from,
                                     !.to = f.to, !.pre = f.entry,
                                     !.pre_info = info, !.ret = f.to_piece,
                                     !.val = res, !.cb = v]
           /\ stack' = SubSeq(stack, 1, Len(stack) - 1)
    /\ UNCHANGED <<info, n_rows, n_cols, probe>>

Next ==
    \/ \E k \in PieceKinds, c \in CoordInputs(n_rows, n_cols) :
          SetPiece(Piece(k[1], k[2], c))
    \/ \E c \in CoordInputs(n_rows, n_cols) : RemovePiece(c)
    \/ \E p \in PairInputs(n_rows, n_cols) : MoveToCoord(p[1], p[2])
    \/ \E c \in CoordInputs(n_rows, n_cols) : GetPiece(c)
    \/ \E c \in CoordInputs(n_rows, n_cols) : GetPieceMut(c)
    \/ \E p \in PairInputs(n_rows, n_cols) : MovePiece(p[1], p[2])
    \/ \E p \in PairInputs(n_rows, n_cols) : TemporalMoveEnter(p[1], p[2], 1)
    \/ \E v \in BOOLEAN : TemporalMoveExit(v)

Spec == Init /\ [][Next]_vars

(***************************************************************************)
(* Claims about the Board's operations.                                    *)
(***************************************************************************)
\* the last call was temporal_move and it returned
TemporalMoveReturned == last.op = "temporal_move" /\ last.outcome = "ok"

\* C1: temporal_move(from, to, cb) with a callback that leaves the board alone
\* returns cb's value and leaves the board as it was before the call: every
\* cell has the occupant it had, stamped with the cell's coordinate.
C1_TemporalMoveRestores ==
    (TemporalMoveReturned /\ stack = <<>>) =>
        /\ board = last.pre
        /\ last.val = last.cb
        /\ \A c \in DOMAIN board :
              IsSome(board[c]) => Unwrap(board[c]).coord = c
        /\ info = last.pre_info

\* a temporal move of a piece onto an occupied cell has returned
C1_Witness ==
    /\ TemporalMoveReturned
    /\ stack = <<>>
    /\ last.from # last.to
    /\ IsSome(last.pre[last.from])
    /\ IsSome(last.pre[last.to])
    /\ last.cb = TRUE

\* C3: every cell holds at most one piece, and a piece stored at a cell is
\* stamped with that cell's coordinate.
C3_CellsAgreeWithCoords ==
    \A c \in DOMAIN board :
        /\ Len(board[c]) <= 1
        /\ IsSome(board[c]) => Unwrap(board[c]).coord = c

\* Move::move_piece has relocated a piece next to another one
C3_Witness ==
    /\ last.op = "move_piece"
    /\ last.outcome = "ok"
    /\ last.from # last.to
    /\ last.from \in DOMAIN last.pre
    /\ IsSome(last.pre[last.from])
    /\ IsSome(board[last.to])
    /\ Cardinality(PiecesOn(board)) = 2

KindOf(piece) == <<piece.color, piece.piece, piece.has_moved>>

\* how many pieces of kind k a board holds
CountKind(b, k) ==
    Cardinality({c \in DOMAIN b : IsSome(b[c]) /\ KindOf(Unwrap(b[c])) = k})

KindsOn(b) == {KindOf(Unwrap(b[c])) : c \in PiecesOn(b)}

\* the last call was move_to_coord(from, to) with a piece on from, from # to
MovedAPiece ==
    /\ last.op = "move_to_coord"
    /\ last.outcome = "ok"
    /\ last.from # last.to
    /\ IsSome(last.pre[last.from])

\* C4: move_to_coord(from, to) with a piece on from and from # to empties from,
\* puts that piece on to stamped with to, returns what stood on to, leaves the
\* other cells and the GameState alone, and loses no piece.
C4_MoveToCoord ==
    MovedAPiece =>
        /\ board[last.from] = None
        /\ board[last.to] = Some([Unwrap(last.pre[last.from]) EXCEPT !.coord = last.to])
        /\ last.ret = last.pre[last.to]
        /\ \A c \in DOMAIN board \ {last.from, last.to} : board[c] = last.pre[c]
        /\ info = last.pre_info
        /\ \A k \in KindsOn(last.pre) :
              CountKind(board, k)
                  + (IF IsSome(last.ret) /\ KindOf(Unwrap(last.ret)) = k THEN 1 ELSE 0)
              = CountKind(last.pre, k)

\* move_to_coord has captured
C4_Witness == MovedAPiece /\ IsSome(last.pre[last.to]) /\ IsSome(last.ret)

\* the last call was given a coordinate outside the grid
OutsideCall ==
    /\ last.op \in {"get_piece", "get_piece_mut", "set_piece", "remove_piece",
                    "move_to_coord"}
    /\ \/ last.from \notin DOMAIN last.pre
       \/ last.to \notin DOMAIN last.pre

\* C5: every access with a coordinate outside the grid ends in the typed
\* OutOfBounds failure with the board unchanged, and get_piece succeeds for
\* every coordinate inside the grid.
C5_OutOfBoundsIsTyped ==
    /\ OutsideCall => (last.outcome = "OutOfBounds" /\ board = last.pre)
    /\ (last.op = "get_piece" /\ last.from \in DOMAIN last.pre) =>
           (last.outcome = "ok" /\ last.ret = last.pre[last.from])

(***************************************************************************)
(* TemporalSpec: temporal moves nested in callbacks.                       *)
(***************************************************************************)
\* the grids of TemporalSpec
TemporalSizes == {<<1, 3>>, <<3, 1>>}

CellContents(c) ==
    {None} \cup {Some(Piece(k[1], k[2], c)) : k \in PieceKinds}

\* every board of the grid: each cell empty or holding a piece stamped with
\* the cell's coordinate, as set_piece stores it
AllBoards(nr, nc) ==
    {b \in [Cells(nr, nc) -> UNION {CellContents(c) : c \in Cells(nr, nc)}] :
        \A c \in Cells(nr, nc) : b[c] \in CellContents(c)}

TemporalInit ==
    /\ \E size \in TemporalSizes :
          /\ n_rows = size[1]
          /\ n_cols = size[2]
          /\ board \in AllBoards(size[1], size[2])
    /\ info = DefaultInfo
    /\ stack = <<>>
    /\ last = NoCall
    /\ probe = NoProbe

TemporalNext ==
    \/ \E f \in Cells(n_rows, n_cols), t \in Cells(n_rows, n_cols) :
          TemporalMoveEnter(f, t, MaxDepth)
    \/ \E v \in BOOLEAN : TemporalMoveExit(v)

TemporalSpec == TemporalInit /\ [][TemporalNext]_vars

\* C2: nested temporal moves are stack-disciplined: each call, at whatever
\* depth, returns with the board as it was when that call was entered, so the
\* enclosing call reverses its own move on the board its move produced, and
\* after the outermost call the board is the one before it.
C2_StackDiscipline ==
    TemporalMoveReturned =>
        /\ board = last.pre
        /\ stack # <<>> =>
              LET f == stack[Len(stack)]
              IN  board = TmApply(f.entry, f.from, f.to).board

\* an inner temporal move b -> a has returned inside an outer one a -> b that
\* captured
C2_Witness ==
    /\ TemporalMoveReturned
    /\ Len(stack) = 1
    /\ last.from = stack[1].to
    /\ last.to = stack[1].from
    /\ last.from # last.to
    /\ IsSome(stack[1].to_piece)
    /\ IsSome(stack[1].entry[stack[1].from])

(***************************************************************************)
(* CheckSpec: is_check and is_mate called on a position, with the piece     *)
(* lists the tests hand over: the pieces of the probed piece's colour as    *)
(* enemy_pieces, those of the other colour as ally_pieces, both read off    *)
(* the board before the call.                                              *)
(***************************************************************************)
\* a board holding the given pieces
Position(nr, nc, pieces) ==
    [c \in Cells(nr, nc) |->
        IF \E p \in pieces : p.coord = c
        THEN Some(CHOOSE p \in pieces : p.coord = c)
        ELSE None]

\* k7/8/8/8/7R/8/1p6/K7 w - - 0 1
TestIsCheckNotMate ==
    Position(ROWS, COLS, {Piece(Black, King, Coord(0, 0)), Piece(White, Rook, Coord(4, 7)),
                          Piece(Black, Pawn, Coord(6, 1)), Piece(White, King, Coord(7, 0))})

\* 1r6/r6k/8/8/4bR2/8/8/K7 w - - 0 1
TestMate ==
    Position(ROWS, COLS, {Piece(Black, Rook, Coord(0, 1)), Piece(Black, Rook, Coord(1, 0)),
                          Piece(Black, King, Coord(1, 7)), Piece(Black, Bishop, Coord(4, 4)),
                          Piece(White, Rook, Coord(4, 5)), Piece(White, King, Coord(7, 0))})

\* 1r6/r6k/8/8/4b3/8/5R2/K7 w - - 0 1
TestBlockMate ==
    Position(ROWS, COLS, {Piece(Black, Rook, Coord(0, 1)), Piece(Black, Rook, Coord(1, 0)),
                          Piece(Black, King, Coord(1, 7)), Piece(Black, Bishop, Coord(4, 4)),
                          Piece(White, Rook, Coord(6, 5)), Piece(White, King, Coord(7, 0))})

\* 8/8/8/8/R2b3k/8/8/K7 w - - 0 1
NotARealCheck ==
    Position(ROWS, COLS, {Piece(White, Rook, Coord(4, 0)), Piece(Black, Bishop, Coord(4, 3)),
                          Piece(Black, King, Coord(4, 7)), Piece(White, King, Coord(7, 0))})

\* 1r6/r6k/8/8/8/8/4P3/K2B4 w - - 0 1: the check on the a-file can be blocked
\* by the white bishop; a white pawn stands on its start row
BlockMateWithPawn ==
    Position(ROWS, COLS, {Piece(Black, Rook, Coord(0, 1)), Piece(Black, Rook, Coord(1, 0)),
                          Piece(Black, King, Coord(1, 7)), Piece(White, Pawn, Coord(6, 4)),
                          Piece(White, King, Coord(7, 0)), Piece(White, Bishop, Coord(7, 3))})

\* 1r6/r6k/8/8/4b3/8/8/K1N5 w - - 0 1: a knight in place of the blocking rook
BlockMateWithKnight ==
    Position(ROWS, COLS, {Piece(Black, Rook, Coord(0, 1)), Piece(Black, Rook, Coord(1, 0)),
                          Piece(Black, King, Coord(1, 7)), Piece(Black, Bishop, Coord(4, 4)),
                          Piece(White, King, Coord(7, 0)), Piece(White, Knight, Coord(7, 2))})

\* 8/8/8/8/8/8/8/R1rk3K w - - 0 1: a black rook between the white rook and the
\* black king
PinnedRook ==
    Position(ROWS, COLS, {Piece(White, Rook, Coord(7, 0)), Piece(Black, Rook, Coord(7, 2)),
                          Piece(Black, King, Coord(7, 3)), Piece(White, King, Coord(7, 7))})

TestPositions ==
    {TestIsCheckNotMate, TestMate, TestBlockMate, NotARealCheck, BlockMateWithPawn,
     BlockMateWithKnight, PinnedRook}

\* small boards: both kings, at most one more white piece and one more black
SmallSizes == {<<3, 3>>}
WhiteExtras == {Rook, Pawn}
BlackExtras == {Rook}

\* the empty cells of a board
Free(b) == {c \in DOMAIN b : ~IsSome(b[c])}

\* each board with a king of the colour set on one of its empty cells
WithKing(boards, color) ==
    UNION {{set_piece(b, Piece(color, King, c)).board : c \in Free(b)} : b \in boards}

\* each board as it is, and with one more piece of the colour
WithExtra(boards, color, types) ==
    boards \cup UNION {{set_piece(b, Piece(color, t, c)).board :
                           t \in types, c \in Free(b)} : b \in boards}

SmallOn(nr, nc) ==
    WithExtra(WithExtra(WithKing(WithKing({NewBoard(nr, nc)}, White), Black),
                        White, WhiteExtras),
              Black, BlackExtras)

SmallPositions == UNION {SmallOn(sz[1], sz[2]) : sz \in SmallSizes}

CheckInit ==
    /\ board \in TestPositions \cup SmallPositions
    /\ n_rows = get_rows(board)
    /\ n_cols = get_cols(board)
    /\ info = DefaultInfo
    /\ stack = <<>>
    /\ last = NoCall
    /\ probe = NoProbe

\* the cells probed: every piece's cell and the first empty cell
FirstEmpty(b) ==
    LET empty == {k \in 0..(get_rows(b) * get_cols(b) - 1) :
                     ~IsSome(b[Coord(k \div get_cols(b), k % get_cols(b))])}
        k0 == CHOOSE k \in empty : \A j \in empty : k <= j
    IN  Coord(k0 \div get_cols(b), k0 % get_cols(b))

ProbeCoords(b) == PiecesOn(b) \cup {FirstEmpty(b)}

\* the cells is_mate is called on: the kings' cells and the first empty cell
MateCoords(b) ==
    {c \in PiecesOn(b) : Unwrap(b[c]).piece = King} \cup {FirstEmpty(b)}

\* the colour whose pieces the caller hands over as enemy_pieces
ProbedColor(b, coord) == IF IsSome(b[coord]) THEN Unwrap(b[coord]).color ELSE White

EnemyPieces(b, coord) == get_all_pieces(b, get_rows(b), get_cols(b), ProbedColor(b, coord))
AllyPieces(b, coord) ==
    get_all_pieces(b, get_rows(b), get_cols(b), opposite(ProbedColor(b, coord)))

\* a call of is_check on a fresh clone of the position
CallIsCheck(coord) ==
    /\ probe.op = "none"
    /\ LET r == is_check(coord, board, info, EnemyPieces(board, coord),
                         AllyPieces(board, coord))
       IN  /\ board' = r.board
           /\ probe' = [op |-> "is_check", coord |-> coord, res |-> r.val,
                        phase |-> "none", pre |-> board]
    /\ UNCHANGED <<info, n_rows, n_cols, stack, last>>

\* a call of is_mate on a fresh clone of the position, with one of the results
\* the iteration orders allow
CallIsMate(coord) ==
    /\ probe.op = "none"
    /\ \E r \in is_mate(coord, board, info, EnemyPieces(board, coord),
                        AllyPieces(board, coord)) :
           /\ board' = r.board
           /\ probe' = [op |-> "is_mate", coord |-> coord, res |-> r.val,
                        phase |-> r.phase, pre |-> board]
    /\ UNCHANGED <<info, n_rows, n_cols, stack, last>>

CheckNext ==
    \/ /\ probe.op = "none"
       /\ \E coord \in ProbeCoords(board) : CallIsCheck(coord)
    \/ /\ probe.op = "none"
       /\ \E coord \in MateCoords(board) : CallIsMate(coord)

CheckSpec == CheckInit /\ [][CheckNext]_vars

(***************************************************************************)
(* Claims about is_check and is_mate, checked under CheckSpec.             *)
(***************************************************************************)
\* the call that has returned: op on the cell coord of the position pos
Probed(pos, op, coord) == probe.pre = pos /\ probe.op = op /\ probe.coord = coord

\* a call of op has been made on the cell of a king
ProbedKing(op) ==
    /\ probe.op = op
    /\ IsSome(probe.pre[probe.coord])
    /\ Unwrap(probe.pre[probe.coord]).piece = King

\* is_check says "true" on the cell probed once the piece on from has been
\* moved to to, with the piece lists of the call
InCheckAfter(b, coord, from, to, probed) ==
    /\ in_bounds(b, to)
    /\ is_check(probed, move_to_coord(b, from, to).board, info,
                EnemyPieces(b, coord), AllyPieces(b, coord)).val = "true"

\* (a): the king on coord is still in check on every destination its rules allow
EveryKingMoveInCheck(b, coord) ==
    \A to \in get_moves(Unwrap(b[coord]), b, info) : InCheckAfter(b, coord, coord, to, to)

\* the moves of the other pieces of the king's colour: [piece, to]
OtherMoves(b, coord) ==
    {m \in UNION {UNION {{[piece |-> q, to |-> to] :
                             to \in Range(allowed_moves(Moves(q.piece)[r], q.coord, b, info))} :
                         r \in 1..Len(Moves(q.piece))} :
                  q \in Range(EnemyPieces(b, coord))} :
        m.piece.coord # coord}

\* (b): the king on coord is still in check after every move of every other
\* piece of its colour
EveryOtherMoveInCheck(b, coord) ==
    \A m \in OtherMoves(b, coord) : InCheckAfter(b, coord, m.piece.coord, m.to, coord)

C7_CheckNotMate ==
    /\ Probed(TestIsCheckNotMate, "is_check", Coord(7, 0)) => probe.res = "true"
    /\ Probed(TestIsCheckNotMate, "is_mate", Coord(7, 0)) => probe.res = "false"

\* C8: in 1r6/r6k/8/8/4bR2/8/8/K7 is_check on the white king's cell returns
\* true and is_mate returns true, reached at the end of the search: no king
\* destination is safe and no move of the white rook removes the check.
C8_Mate ==
    /\ Probed(TestMate, "is_check", Coord(7, 0)) => probe.res = "true"
    /\ Probed(TestMate, "is_mate", Coord(7, 0)) =>
          /\ probe.res = "true"
          /\ probe.phase = "end"
          /\ EveryKingMoveInCheck(TestMate, Coord(7, 0))
          /\ EveryOtherMoveInCheck(TestMate, Coord(7, 0))

\* is_mate has returned on the mate position
C8_Witness ==
    /\ Probed(TestMate, "is_mate", Coord(7, 0))
    /\ probe.res = "true"
    /\ OtherMoves(TestMate, Coord(7, 0)) # {}

\* some piece other than the king on coord has a move after which is_check on
\* coord says "false"
SomeDefenderResolves(b, coord) ==
    \E m \in OtherMoves(b, coord) :
        /\ in_bounds(b, m.to)
        /\ is_check(coord, move_to_coord(b, m.piece.coord, m.to).board, info,
                    EnemyPieces(b, coord), AllyPieces(b, coord)).val = "false"

\* C9: in 1r6/r6k/8/8/4b3/8/5R2/K7 is_check on the white king's cell returns
\* true and is_mate returns false; and is_mate returns false for every king
\* some other piece of whose colour has a move after which the king is no
\* longer in check.
C9_BlockMate ==
    /\ Probed(TestBlockMate, "is_check", Coord(7, 0)) => probe.res = "true"
    /\ Probed(TestBlockMate, "is_mate", Coord(7, 0)) => probe.res = "false"
    /\ (ProbedKing("is_mate") /\ SomeDefenderResolves(probe.pre, probe.coord)) =>
          probe.res = "false"

\* the pieces of a colour standing on a board
PiecesOf(b, color) == get_all_pieces(b, get_rows(b), get_cols(b), color)

\* a piece of the other colour can move to coord and, once it has moved there,
\* no piece of coord's colour can move onto the square of the mover's king
AttackWithoutExposure(b, coord) ==
    \E p \in Range(PiecesOf(b, opposite(Unwrap(b[coord]).color))) :
        /\ can_move(p, coord, b, info)
        /\ LET after == move_to_coord(b, p.coord, coord).board
           IN  \A q \in Range(PiecesOf(after, Unwrap(b[coord]).color)) :
                  ~can_move(q, get_king(after, p.color).coord, after, info)

\* C10: is_check on an occupied cell returns true if and only if some piece of
\* the other colour can move to the cell and, in the position after that move,
\* no piece of the cell's colour can move onto the mover's king's square; in
\* 8/8/8/8/R2b3k/8/8/K7 the bishop's attack on the white king is not reported.
C10_IsCheckIff ==
    /\ (probe.op = "is_check" /\ IsSome(probe.pre[probe.coord])) =>
          ((probe.res = "true") <=> AttackWithoutExposure(probe.pre, probe.coord))
    /\ Probed(NotARealCheck, "is_check", Coord(7, 0)) => probe.res = "false"

\* some piece of the list can move to coord on the board
AnyCanMove(pieces, coord, b) ==
    \E k \in 1..Len(pieces) : can_move(pieces[k], coord, b, info)

\* the is_check call is_mate makes for the board after a simulated move
\* returns true if some piece of the other colour can move to the probed cell
ProbeReportsAttack(b, coord, after, probed) ==
    AnyCanMove(AllyPieces(b, coord), probed, after) =>
        is_check(probed, after, info, EnemyPieces(b, coord),
                 AllyPieces(b, coord)).val = "true"

C12_NoPieceIsFalse ==
    (probe.op \in {"is_check", "is_mate"} /\ ~IsSome(probe.pre[probe.coord])) =>
        /\ probe.res = "false"
        /\ board = probe.pre
        /\ info = DefaultInfo

\* is_mate has been called on an empty cell of a board on which a piece can
\* move to that cell
C12_Witness ==
    /\ probe.op = "is_mate"
    /\ ~IsSome(probe.pre[probe.coord])
    /\ \/ AnyCanMove(PiecesOf(probe.pre, White), probe.coord, probe.pre)
       \/ AnyCanMove(PiecesOf(probe.pre, Black), probe.coord, probe.pre)

\* C13: when is_check or is_mate returns, whatever the result, the board is the
\* board handed to the call (same occupant and stored coordinate in every
\* cell) and the game state is unchanged.
C13_BoardRestored ==
    (probe.op \in {"is_check", "is_mate"} /\ probe.res \in {"true", "false"}) =>
        /\ board = probe.pre
        /\ info = DefaultInfo

\* is_mate has returned early out of its second loop, after simulated moves of
\* the king and of another piece
C13_Witness ==
    /\ ProbedKing("is_mate")
    /\ probe.res = "false"
    /\ probe.phase = "others"
    /\ get_moves(Unwrap(probe.pre[probe.coord]), probe.pre, info) # {}
    /\ board = probe.pre

(***************************************************************************)
(* SlideSpec: Line::is_move_valid and Diagonal::is_move_valid called, with  *)
(* and without a range cap, from a piece of a small board to every cell of *)
(* the board and to coordinates outside it.  probe records the call: the   *)
(* rule, both coordinates, the board and the result.                       *)
(***************************************************************************)
MaxSlidePieces == 2
SlideSizes == {<<3, 3>>, <<2, 4>>}
SlideCaps == {None, Some(1), Some(2)}

\* the boards with up to n more pieces of the type, of either colour, on the cells
RECURSIVE WithUpTo(_, _, _, _)
WithUpTo(boards, type, cells, n) ==
    IF n = 0 THEN boards
    ELSE WithUpTo(boards \cup UNION {{set_piece(b, Piece(color, type, c)).board :
                                         color \in {White, Black}, c \in Free(b) \cap cells} :
                                     b \in boards},
                  type, cells, n - 1)

SlideBoards ==
    UNION {WithUpTo({NewBoard(sz[1], sz[2])}, Queen, Cells(sz[1], sz[2]), MaxSlidePieces) :
              sz \in SlideSizes}

SlideInit ==
    /\ board \in SlideBoards
    /\ n_rows = get_rows(board)
    /\ n_cols = get_cols(board)
    /\ info = DefaultInfo
    /\ stack = <<>>
    /\ last = NoCall
    /\ probe = NoProbe

\* the destinations tried: every cell, and coordinates off the board
Targets(b) ==
    DOMAIN b \cup {Coord(0 - 1, 0), Coord(0, get_cols(b)), Coord(get_rows(b), get_cols(b))}

\* the record of a call rule.is_move_valid(from, to, &board)
RuleProbe(rule, from, to, b, inf, res) ==
    [op |-> "is_move_valid", rule |-> rule, from |-> from, to |-> to, res |-> res,
     pre |-> b, pre_info |-> inf]

CallLineIsMoveValid(cap, from, to) ==
    /\ probe.op = "none"
    /\ probe' = RuleProbe(LineRule(cap), from, to, board, info,
                          LineIsMoveValid(LineRule(cap), from, to, board))
    /\ UNCHANGED <<board, info, n_rows, n_cols, stack, last>>

CallDiagonalIsMoveValid(cap, from, to) ==
    /\ probe.op = "none"
    /\ probe' = RuleProbe(DiagonalRule(cap), from, to, board, info,
                          DiagonalIsMoveValid(DiagonalRule(cap), from, to, board))
    /\ UNCHANGED <<board, info, n_rows, n_cols, stack, last>>

SlideNext ==
    \/ /\ probe.op = "none"
       /\ \E cap \in SlideCaps, from \in PiecesOn(board), to \in Targets(board) :
             CallLineIsMoveValid(cap, from, to)
    \/ /\ probe.op = "none"
       /\ \E cap \in SlideCaps, from \in PiecesOn(board), to \in Targets(board) :
             CallDiagonalIsMoveValid(cap, from, to)

SlideSpec == SlideInit /\ [][SlideNext]_vars

\* the directions of a sliding rule
SlideDirections(rule) == IF rule.kind = "Line" THEN Orthogonals ELSE Diagonals

\* the cell d steps from a coordinate in a direction
StepsFrom(from, dir, d) ==
    Coord(from.row + d * get_step(dir).row, from.col + d * get_step(dir).col)

\* the range cap k of a rule in a direction: the cap given, else the board's extent
RangeCap(rule, b, dir) == UnwrapOr(rule.max_range, max_cells_direction(b, dir))

\* to lies on a direction of the rule at a distance 1..k, the cells strictly
\* between are empty, and to is empty or holds a piece of the other colour
SlideReaches(rule, from, to, b) ==
    \E k \in 1..Len(SlideDirections(rule)) :
        LET dir == SlideDirections(rule)[k]
        IN  \E d \in 1..RangeCap(rule, b, dir) :
               /\ to = StepsFrom(from, dir, d)
               /\ in_bounds(b, to)
               /\ \A j \in 1..(d - 1) : ~IsSome(b[StepsFrom(from, dir, j)])
               /\ (IsSome(b[to]) => Unwrap(b[to]).color # Unwrap(b[from]).color)

SlideProbed ==
    /\ probe.op = "is_move_valid"
    /\ probe.rule.kind \in {"Line", "Diagonal"}

\* C14: a Line or Diagonal move is valid exactly when the destination lies on
\* one of the rule's directions within the range cap, every cell strictly
\* between is empty, and the destination is empty or holds a piece of the other
\* colour; with a cap of 1 the valid destinations are adjacent cells
C14_SlideValidIff ==
    SlideProbed =>
        /\ probe.res = SlideReaches(probe.rule, probe.from, probe.to, probe.pre)
        /\ (probe.res /\ probe.rule.max_range = Some(1)) =>
               /\ Abs(probe.to.row - probe.from.row) <= 1
               /\ Abs(probe.to.col - probe.from.col) <= 1

\* a capture two cells away along the rule's direction, over an empty cell
C14_Witness ==
    /\ SlideProbed
    /\ probe.res
    /\ probe.rule.max_range = None
    /\ in_bounds(probe.pre, probe.to)
    /\ IsSome(probe.pre[probe.to])
    /\ Abs(probe.to.row - probe.from.row) = 2 \/ Abs(probe.to.col - probe.from.col) = 2
(***************************************************************************)
(* JumpSpec: Jump::is_move_valid and Jump::allowed_moves called on 8x8      *)
(* boards holding a white knight and a few pieces around it.               *)
(***************************************************************************)
MaxJumpOthers == 2

\* the knight's squares: corners, an edge, and squares away from the edges
JumpFroms ==
    {Coord(0, 0), Coord(0, COLS - 1), Coord(ROWS - 1, COLS - 1), Coord(0, 1),
     Coord(2, 4), Coord(5, 2)}

\* the cells around a square where the other pieces stand: the rule's eight
\* destinations and cells next to the square
JumpNear(from) ==
    {c \in Cells(ROWS, COLS) :
        /\ c # from
        /\ \/ is_jump_in_range(from, c)
           \/ c \in {Coord(from.row + 1, from.col), Coord(from.row, from.col + 1),
                     Coord(from.row + 1, from.col + 1)}}

JumpBoards ==
    UNION {WithUpTo({set_piece(NewBoard(ROWS, COLS), Piece(White, Knight, from)).board},
                    Pawn, JumpNear(from), MaxJumpOthers) : from \in JumpFroms}

JumpInit ==
    /\ board \in JumpBoards
    /\ n_rows = get_rows(board)
    /\ n_cols = get_cols(board)
    /\ info = DefaultInfo
    /\ stack = <<>>
    /\ last = NoCall
    /\ probe = NoProbe

\* the cells a rule is called from: the piece of the type, and an empty cell
CallFroms(b, type) == {c \in PiecesOn(b) : Unwrap(b[c]).piece = type} \cup {FirstEmpty(b)}

\* the destinations tried from a square: the eight of the rule, the square
\* itself and cells that are no jump away; some lie off the board
JumpTargets(from) ==
    Range(JumpCandidates(from))
        \cup {from, Coord(from.row + 1, from.col), Coord(from.row + 1, from.col + 1),
              Coord(from.row + 2, from.col + 2), Coord(from.row + 3, from.col + 1),
              Coord(from.row - 2, from.col)}

\* the record of a call rule.allowed_moves(from, &board)
MovesProbe(rule, from, b, inf, res) ==
    [op |-> "allowed_moves", rule |-> rule, from |-> from, to |-> NoCoord, res |-> res,
     pre |-> b, pre_info |-> inf]

CallJumpIsMoveValid(from, to) ==
    /\ probe.op = "none"
    /\ probe' = RuleProbe(JumpRule, from, to, board, info, JumpIsMoveValid(from, to, board))
    /\ UNCHANGED <<board, info, n_rows, n_cols, stack, last>>

CallJumpAllowedMoves(from) ==
    /\ probe.op = "none"
    /\ probe' = MovesProbe(JumpRule, from, board, info, JumpAllowedMoves(from, board))
    /\ UNCHANGED <<board, info, n_rows, n_cols, stack, last>>

JumpNext ==
    \/ /\ probe.op = "none"
       /\ \E from \in CallFroms(board, Knight) :
             \E to \in JumpTargets(from) : CallJumpIsMoveValid(from, to)
    \/ /\ probe.op = "none"
       /\ \E from \in CallFroms(board, Knight) : CallJumpAllowedMoves(from)

JumpSpec == JumpInit /\ [][JumpNext]_vars

\* the board with every cell emptied but the ones to keep
Cleared(b, keep) == [c \in DOMAIN b |-> IF c \in keep THEN b[c] ELSE None]

\* the cell is empty or holds a piece of another colour than the piece on from
EmptyOrEnemy(b, from, to) == IsSome(b[to]) => Unwrap(b[to]).color # Unwrap(b[from]).color

JumpProbed(op) == probe.op = op /\ probe.rule.kind = "Jump"

\* C15: a jump is valid exactly when from holds a piece, to is on the board,
\* the absolute row and column differences are the rule's two numbers in
\* either order, and to is empty or holds a piece of the other colour; the
\* result is the same on the board with every other cell emptied
C15_JumpValidIff ==
    JumpProbed("is_move_valid") =>
        /\ probe.res =
              (/\ IsSome(probe.pre[probe.from])
               /\ in_bounds(probe.pre, probe.to)
               /\ {Abs(probe.to.row - probe.from.row), Abs(probe.to.col - probe.from.col)}
                     = {JumpFirst, JumpSecond}
               /\ EmptyOrEnemy(probe.pre, probe.from, probe.to))
        /\ probe.res = JumpIsMoveValid(probe.from, probe.to,
                                       Cleared(probe.pre, {probe.from, probe.to}))

\* a capture by a jump while a cell next to the knight is occupied
C15_Witness ==
    /\ JumpProbed("is_move_valid")
    /\ probe.res
    /\ IsSome(probe.pre[probe.to])
    /\ \E c \in PiecesOn(probe.pre) :
          c \notin {probe.from, probe.to} /\ ~is_jump_in_range(probe.from, c)

\* the knight offsets from a square that are on the board and not held by a
\* piece of the knight's colour
KnightOffsets(b, from) ==
    {to \in DOMAIN b :
        /\ {Abs(to.row - from.row), Abs(to.col - from.col)} = {1, 2}
        /\ EmptyOrEnemy(b, from, to)}

Corners == {Coord(0, 0), Coord(0, COLS - 1), Coord(ROWS - 1, 0), Coord(ROWS - 1, COLS - 1)}

\* C16: on an 8x8 board the knight rule's allowed_moves returns each destination
\* once, as many as there are knight offsets on the board not held by a friendly
\* piece: 2 from a corner of an otherwise empty board, 8 from a square with both
\* coordinates in 2..5 whose eight targets are empty or held by the other colour
C16_KnightMoveCount ==
    (JumpProbed("allowed_moves") /\ IsSome(probe.pre[probe.from])) =>
        LET offsets == KnightOffsets(probe.pre, probe.from)
        IN  /\ Cardinality(Range(probe.res)) = Len(probe.res)
            /\ Len(probe.res) = Cardinality(offsets)
            /\ (probe.from \in Corners /\ PiecesOn(probe.pre) = {probe.from})
                  => Len(probe.res) = 2
            /\ (/\ probe.from.row \in 2..5
                /\ probe.from.col \in 2..5
                /\ \A to \in Range(JumpCandidates(probe.from)) :
                      EmptyOrEnemy(probe.pre, probe.from, to))
                  => Len(probe.res) = 8

\* eight destinations from an inner square with a piece to capture on one of them
C16_Witness ==
    /\ JumpProbed("allowed_moves")
    /\ IsSome(probe.pre[probe.from])
    /\ probe.from.row \in 2..5
    /\ probe.from.col \in 2..5
    /\ Len(probe.res) = 8
    /\ \E k \in 1..Len(probe.res) : IsSome(probe.pre[probe.res[k]])
(***************************************************************************)
(* PawnSpec: PawnMove::is_move_valid called from the pawns of a small       *)
(* board, with and without an en-passant target, on the position as set up *)
(* and after one pawn was moved a single straight step by move_piece.      *)
(***************************************************************************)
MaxPawns == 2
PawnSizes == {<<4, 2>>}

\* the en-passant targets of the GameState: none, or one of these cells
EnPassantTargets == {Coord(1, 1), Coord(2, 0)}

PawnBoards ==
    UNION {WithUpTo({NewBoard(sz[1], sz[2])}, Pawn, Cells(sz[1], sz[2]), MaxPawns) :
              sz \in PawnSizes}

PawnInit ==
    /\ board \in PawnBoards
    /\ n_rows = get_rows(board)
    /\ n_cols = get_cols(board)
    /\ \E ep \in {None} \cup {Some(c) : c \in EnPassantTargets} :
          info = [DefaultInfo EXCEPT !.en_passant = ep]
    /\ stack = <<>>
    /\ last = NoCall
    /\ probe = NoProbe

\* the destinations tried from a square: up to two rows and one column away,
\* on the board or off it
PawnTargets(from) ==
    {Coord(from.row + dr, from.col + dc) : dr \in (0 - 2)..2, dc \in (0 - 1)..1}

\* PawnMove::is_move_valid ends in unreachable!(): a straight step in the
\* colour's direction whose cell one step ahead is off the board
PawnCallPanics(from, to, b) ==
    LET got == get_piece(b, from)
        parsed == parse_direction(from, to)
    IN  /\ got.ok
        /\ IsSome(got.cell)
        /\ parsed.ok
        /\ \E k \in 1..3 : PawnDirections(Unwrap(got.cell).color)[k] = parsed.dir
        /\ from.col = to.col
        /\ \/ Abs(from.row - to.row) = 1 /\ PawnStepPanics(from, to, b)
           \/ /\ Abs(from.row - to.row) = 2
              /\ is_pawn_row(b, from.row, Unwrap(got.cell).color)
              /\ PawnStepPanics(from, CoordAdd(from, get_step(parsed.dir)), b)

\* how a call ends: a panic, or the value returned
Outcome(panics, val) == IF panics THEN "panic" ELSE IF val THEN "true" ELSE "false"

\* Move::move_piece of a pawn, one straight step onto an empty cell
PawnMovePiece(from, to) ==
    /\ probe.op = "none"
    /\ last.op = "none"
    /\ in_bounds(board, to)
    /\ ~IsSome(board[to])
    /\ to.col = from.col
    /\ Abs(to.row - from.row) = 1
    /\ board' = move_piece(board, from, to).board
    /\ last' = [NoCall EXCEPT !.op = "move_piece", !.from = from, !.to = to,
                              !.pre = board, !.pre_info = info]
    /\ UNCHANGED <<info, n_rows, n_cols, stack, probe>>

CallPawnIsMoveValid(from, to) ==
    /\ probe.op = "none"
    /\ probe' = RuleProbe(PawnRule, from, to, board, info,
                          Outcome(PawnCallPanics(from, to, board),
                                  PawnIsMoveValid(from, to, board, info)))
    /\ UNCHANGED <<board, info, n_rows, n_cols, stack, last>>

CallPawnAllowedMoves(from) ==
    /\ probe.op = "none"
    /\ probe' = MovesProbe(PawnRule, from, board, info, PawnAllowedMoves(from, board, info))
    /\ UNCHANGED <<board, info, n_rows, n_cols, stack, last>>

PawnNext ==
    \/ /\ probe.op = "none"
       /\ \E from \in PiecesOn(board) : \E to \in PawnTargets(from) : PawnMovePiece(from, to)
    \/ /\ probe.op = "none"
       /\ \E from \in PiecesOn(board) :
             \E to \in PawnTargets(from) : CallPawnIsMoveValid(from, to)
    \/ /\ probe.op = "none"
       /\ \E from \in PiecesOn(board) : CallPawnAllowedMoves(from)

PawnSpec == PawnInit /\ [][PawnNext]_vars

\* the row step of an advancing pawn: white toward smaller rows, black toward
\* larger rows
Advance(color) == IF color = White THEN 0 - 1 ELSE 1

PawnProbed == probe.op = "is_move_valid" /\ probe.rule.kind = "PawnMove"

\* the pawn the probed call is made from
Mover == Unwrap(probe.pre[probe.from])

\* the cell n rows ahead of the probed pawn
Ahead(n) == Coord(probe.from.row + n * Advance(Mover.color), probe.from.col)

EmptyCell(b, c) == in_bounds(b, c) /\ ~IsSome(b[c])

\* C17: a pawn move is accepted only when it advances - white to a smaller
\* row, black to a larger row; a single step ahead onto an empty cell is valid;
\* same-row and backward moves are invalid, the reverse of a step just made
\* included
C17_PawnAdvancesOnly ==
    PawnProbed =>
        /\ probe.res = "true" => (probe.to.row - probe.from.row) * Advance(Mover.color) > 0
        /\ (probe.to = Ahead(1) /\ EmptyCell(probe.pre, probe.to)) => probe.res = "true"
        /\ (probe.to.row - probe.from.row) * Advance(Mover.color) <= 0 => probe.res = "false"
        /\ (/\ last.op = "move_piece"
            /\ probe.from = last.to
            /\ probe.to = last.from
            /\ last.to.row - last.from.row = Advance(Mover.color))
              => probe.res = "false"

\* C18: the move two rows ahead is valid exactly when the pawn stands on its
\* colour's start row and both the cell one row ahead and the destination are
\* empty
C18_TwoStepIff ==
    (PawnProbed /\ probe.to = Ahead(2)) =>
        (probe.res = "true") =
            (/\ is_pawn_row(probe.pre, probe.from.row, Mover.color)
             /\ EmptyCell(probe.pre, Ahead(1))
             /\ EmptyCell(probe.pre, Ahead(2)))

\* C19: the move one row ahead and one column aside is valid exactly when the
\* destination holds a piece of the other colour, or is empty and is the
\* en-passant target; the straight step ahead onto an occupied cell is invalid
C19_DiagonalCaptureIff ==
    PawnProbed =>
        /\ (probe.to.row = Ahead(1).row /\ Abs(probe.to.col - probe.from.col) = 1) =>
              (probe.res = "true") =
                  (/\ in_bounds(probe.pre, probe.to)
                   /\ IF IsSome(probe.pre[probe.to])
                      THEN Unwrap(probe.pre[probe.to]).color # Mover.color
                      ELSE probe.pre_info.en_passant = Some(probe.to))
        /\ (/\ probe.to = Ahead(1)
            /\ in_bounds(probe.pre, probe.to)
            /\ IsSome(probe.pre[probe.to]))
              => probe.res = "false"
(***************************************************************************)
(* CastleSpec: Castle::is_move_valid and Castle::allowed_moves called from  *)
(* the kings of a board of three rows: the white king and rooks on their   *)
(* squares of the last row, the black king on the first row, a few rooks   *)
(* of either colour between them, and the castling rights recorded for     *)
(* White in the GameState.                                                 *)
(***************************************************************************)
MaxCastleOthers == 2
CastleRows == 3
BackRank == CastleRows - 1

KingSquare == Coord(BackRank, 4)

\* CastlingRights: the king's destination and the rook's square
KingSide == [new_king |-> Coord(BackRank, 6), rook |-> Coord(BackRank, COLS - 1)]
QueenSide == [new_king |-> Coord(BackRank, 2), rook |-> Coord(BackRank, 0)]

\* the rights recorded: none for either colour, or some for White
CastlingMaps ==
    {<<>>} \cup {[c \in {White} |-> rights] :
                    rights \in {<<KingSide>>, <<QueenSide>>, <<KingSide, QueenSide>>,
                                <<QueenSide, KingSide>>}}

\* R3K2R on the last row, the black king on the first
CastleBase ==
    set_piece(set_piece(set_piece(set_piece(NewBoard(CastleRows, COLS),
        Piece(White, King, KingSquare)).board,
        Piece(White, Rook, QueenSide.rook)).board,
        Piece(White, Rook, KingSide.rook)).board,
        Piece(Black, King, Coord(0, 4))).board

\* where the other pieces stand: between king and rooks, and on the first row
CastleNear ==
    {Coord(BackRank, c) : c \in {1, 2, 3, 5, 6}} \cup {Coord(0, 3), Coord(0, 6)}

CastleBoards == WithUpTo({CastleBase}, Rook, CastleNear, MaxCastleOthers)

CastleInit ==
    /\ board \in CastleBoards
    /\ n_rows = get_rows(board)
    /\ n_cols = get_cols(board)
    /\ \E castling \in CastlingMaps : info = [DefaultInfo EXCEPT !.castling = castling]
    /\ stack = <<>>
    /\ last = NoCall
    /\ probe = NoProbe

\* the destinations tried: cells of the first and of the last row
CastleTargets == {Coord(r, c) : r \in {0, BackRank}, c \in {1, 2, 3, 5, 6}}

\* Castle::is_move_valid panics: the right asked for is recorded, the path to
\* the rook is clear, and a cell the traversal tests is off the board while
\* none before it is under check
CastleCallPanics(from, to, b, inf) ==
    LET got == get_piece(b, from)
        rights == RightsOf(inf, Unwrap(got.cell).color)
        hits == {k \in 1..Len(rights) : rights[k].new_king = to}
        right == rights[CHOOSE k \in hits : \A j \in hits : k <= j]
    IN  /\ got.ok
        /\ IsSome(got.cell)
        /\ hits # {}
        /\ parse_direction(to, from).ok
        /\ is_line_clear(from, right.rook, b)
        /\ \E i \in 0..CastleMaxRange :
              /\ ~in_bounds(b, InterCell(from, to, i))
              /\ \A j \in 0..(i - 1) :
                    ~is_check_probe(InterCell(from, to, j),
                                    TmApply(b, from, InterCell(from, to, j)).board, inf, FALSE)

CallCastleIsMoveValid(from, to) ==
    /\ probe.op = "none"
    /\ probe' = RuleProbe(CastleRule(None), from, to, board, info,
                          Outcome(CastleCallPanics(from, to, board, info),
                                  CastleIsMoveValid(from, to, board, info)))
    /\ UNCHANGED <<board, info, n_rows, n_cols, stack, last>>

CallCastleAllowedMoves(from) ==
    /\ probe.op = "none"
    /\ probe' = MovesProbe(CastleRule(None), from, board, info,
                           CastleAllowedMoves(from, board, info))
    /\ UNCHANGED <<board, info, n_rows, n_cols, stack, last>>

CastleNext ==
    \/ /\ probe.op = "none"
       /\ \E from \in CallFroms(board, King) :
             \E to \in CastleTargets : CallCastleIsMoveValid(from, to)
    \/ /\ probe.op = "none"
       /\ \E from \in CallFroms(board, King) : CallCastleAllowedMoves(from)

CastleSpec == CastleInit /\ [][CastleNext]_vars

CastleProbed(op) ==
    probe.op = op /\ probe.rule.kind = "Castle" /\ IsSome(probe.pre[probe.from])

\* the rights recorded for the colour of the piece the probed call is made from
Recorded ==
    IF Mover.color \in DOMAIN probe.pre_info.castling
    THEN Range(probe.pre_info.castling[Mover.color])
    ELSE {}

\* the cells of a row strictly between two of its cells
Between(a, c) ==
    {Coord(a.row, col) : col \in (IF a.col < c.col THEN a.col ELSE c.col) + 1
                                  ..(IF a.col < c.col THEN c.col ELSE a.col) - 1}

\* some cell strictly between the king and the right's rook is occupied
Blocked(b, king, right) == \E c \in Between(king, right.rook) : IsSome(b[c])

\* no piece between the probed king and the rooks of its rights, and no piece
\* of the other colour but a king two rows or more away
Quiet ==
    /\ \A right \in Recorded : ~Blocked(probe.pre, probe.from, right)
    /\ \A c \in PiecesOn(probe.pre) :
          Unwrap(probe.pre[c]).color # Mover.color =>
              /\ Unwrap(probe.pre[c]).piece = King
              /\ Abs(c.row - probe.from.row) >= 2

KingPath(from, to) == {from, to} \cup Between(from, to)

\* some piece of the other colour than the mover's can move onto the cell once
\* the king stands there
Attacked(b, from, c) ==
    \E p \in PiecesOn(b) :
        /\ Unwrap(b[p]).color # Unwrap(b[from]).color
        /\ can_move(Unwrap(b[p]), c, TmApply(b, from, c).board, probe.pre_info)

\* the probed call asks for the king destination of a recorded right whose
\* path to the rook is empty
OpenRight ==
    \E right \in Recorded :
        right.new_king = probe.to /\ ~Blocked(probe.pre, probe.from, right)

\* C21: a castle is valid only if no cell of the king's way - origin, cells
\* between, destination - is attacked; the cells that count are those from the
\* origin toward the destination, so with an open right and an unattacked way
\* the castle is valid whatever is attacked on the other side of the king
C21_CastleWayNotAttacked ==
    CastleProbed("is_move_valid") =>
        /\ probe.res = "true" =>
              \A c \in KingPath(probe.from, probe.to) : ~Attacked(probe.pre, probe.from, c)
        /\ (/\ OpenRight
            /\ \A c \in KingPath(probe.from, probe.to) : ~Attacked(probe.pre, probe.from, c))
              => probe.res = "true"
(***************************************************************************)
(* Claims about Move::move_piece, checked under Spec.                      *)
(***************************************************************************)
\* move_piece was called with both coordinates on the board
MovePieceInside ==
    /\ last.op = "move_piece"
    /\ in_bounds(last.pre, last.from)
    /\ in_bounds(last.pre, last.to)

\* C22: move_piece with from and to on the board, from = to included: a piece
\* on from stands on to afterwards, with its colour and type, its coordinate
\* to and marked as moved; from is empty unless it is to; what stood on to is
\* gone and every other cell is unchanged; with from empty the board is
\* unchanged
C22_MovePieceRelocates ==
    MovePieceInside =>
        /\ last.outcome = "ok"
        /\ IF IsSome(last.pre[last.from])
           THEN board = [last.pre EXCEPT
                            ![last.from] = None,
                            ![last.to] = Some([Unwrap(last.pre[last.from]) EXCEPT
                                                  !.coord = last.to, !.has_moved = TRUE])]
           ELSE board = last.pre
(***************************************************************************)
(* Further claims about PawnMove::is_move_valid, checked under PawnSpec.   *)
(***************************************************************************)
\* the delta from one coordinate to another is none of the eight compass
\* directions: not zero, not along a row or a column, not along a diagonal
OffCompass(from, to) ==
    /\ to # from
    /\ to.row # from.row
    /\ to.col # from.col
    /\ Abs(to.row - from.row) # Abs(to.col - from.col)

\* C23: from a cell holding a piece, is_move_valid returns false, and does not
\* panic, when to is from, when the delta is no compass direction, and when to
\* lies off the board
C23_BadTargetIsFalse ==
    (/\ PawnProbed
     /\ \/ probe.to = probe.from
        \/ OffCompass(probe.from, probe.to)
        \/ ~in_bounds(probe.pre, probe.to))
        => probe.res = "false"
(***************************************************************************)
(* DirectionSpec: parse_direction called on pairs of coordinates, negative  *)
(* ones included, within a window around the origin.                       *)
(***************************************************************************)
MaxCoord == 3

DirectionFroms == {Coord(0, 0), Coord(1, 2), Coord(0 - 1, MaxCoord)}
DirectionTos == {Coord(r, c) : r \in (0 - MaxCoord)..MaxCoord, c \in (0 - MaxCoord)..MaxCoord}

DirectionInit ==
    /\ board = NewBoard(1, 1)
    /\ n_rows = 1
    /\ n_cols = 1
    /\ info = DefaultInfo
    /\ stack = <<>>
    /\ last = NoCall
    /\ probe = NoProbe

CallParseDirection(from, to) ==
    /\ probe.op = "none"
    /\ probe' = [op |-> "parse_direction", from |-> from, to |-> to,
                 res |-> parse_direction(from, to)]
    /\ UNCHANGED <<board, info, n_rows, n_cols, stack, last>>

DirectionNext ==
    \E from \in DirectionFroms, to \in DirectionTos : CallParseDirection(from, to)

DirectionSpec == DirectionInit /\ [][DirectionNext]_vars

\* to is k >= 1 steps of the direction away from from
StepsAway(from, to, dir) ==
    \E k \in 1..(2 * MaxCoord + 1) : to = StepsFrom(from, dir, k)

\* C24: parse_direction fails with SameOriginDestiny exactly when from = to,
\* with InvalidDirection exactly when the delta is not zero, has no single zero
\* component and has different absolute row and column components; otherwise
\* it returns the one direction whose step, taken k >= 1 times, leads from from
\* to to
C24_ParseDirectionRoundTrip ==
    probe.op = "parse_direction" =>
        LET row_diff == probe.to.row - probe.from.row
            col_diff == probe.to.col - probe.from.col
            one_zero == (row_diff = 0) # (col_diff = 0)
        IN  /\ (probe.res = [ok |-> FALSE, dir |-> "SameOriginDestiny"])
                  = (probe.from = probe.to)
            /\ (probe.res = [ok |-> FALSE, dir |-> "InvalidDirection"])
                  = (/\ probe.from # probe.to
                     /\ ~one_zero
                     /\ Abs(row_diff) # Abs(col_diff))
            /\ probe.res.ok =>
                  /\ StepsAway(probe.from, probe.to, probe.res.dir)
                  /\ \A k \in 1..4 :
                        /\ StepsAway(probe.from, probe.to, Orthogonals[k])
                              => probe.res.dir = Orthogonals[k]
                        /\ StepsAway(probe.from, probe.to, Diagonals[k])
                              => probe.res.dir = Diagonals[k]

\* an anti-diagonal delta of more than one step
C24_Witness ==
    /\ probe.op = "parse_direction"
    /\ probe.res.ok
    /\ probe.to.row - probe.from.row = 0 - (probe.to.col - probe.from.col)
    /\ Abs(probe.to.row - probe.from.row) >= 2
\* the cells one row ahead of the probed pawn and one column aside
AheadAside == {Coord(Ahead(1).row, probe.from.col + dc) : dc \in {0 - 1, 1}}

\* the destinations of the probed pawn: the cell ahead if empty, the cell two
\* rows ahead if the pawn is on its start row and both cells are empty, the
\* cells ahead and aside that hold a piece of the other colour or are the
\* en-passant target
PawnDestinations ==
    {c \in {Ahead(1)} : EmptyCell(probe.pre, c)}
        \cup {c \in {Ahead(2)} : /\ is_pawn_row(probe.pre, probe.from.row, Mover.color)
                                 /\ EmptyCell(probe.pre, Ahead(1))
                                 /\ EmptyCell(probe.pre, c)}
        \cup {c \in AheadAside :
                 /\ in_bounds(probe.pre, c)
                 /\ \/ IsSome(probe.pre[c]) /\ Unwrap(probe.pre[c]).color # Mover.color
                    \/ probe.pre_info.en_passant = Some(c)}

\* C25: allowed_moves of a pawn returns the cell ahead if empty, the cell two
\* ahead if the two-step move is legal, the cells ahead and aside that hold an
\* opposing piece or are the en-passant target; each once, all on the board
C25_PawnAllowedMoves ==
    (probe.op = "allowed_moves" /\ probe.rule.kind = "PawnMove") =>
        /\ Range(probe.res) = PawnDestinations
        /\ Len(probe.res) = Cardinality(PawnDestinations)
        /\ \A k \in 1..Len(probe.res) : in_bounds(probe.pre, probe.res[k])

\* ---------------------------------------------------------------------
\* BoardInfo's turn counters

\* the clocks are i32; the runs stop counting at this many half moves
MaxClock == 8

\* a next_turn that counts the full move after White's half move
MutNextTurnCountsWhite(inf) ==
    [inf EXCEPT !.turn = opposite(inf.turn),
                !.fullmove_number = IF inf.turn = White THEN @ + 1 ELSE @,
                !.halfmove_clock = @ + 1]

\* BoardInfo::next_turn: the turn is flipped first and the full move
\* number is raised when the turn that results is White's
next_turn(inf) ==
    LET turned == [inf EXCEPT !.turn = opposite(inf.turn)]
        counted == IF turned.turn = White
                   THEN [turned EXCEPT !.fullmove_number = @ + 1]
                   ELSE turned
    IN  [counted EXCEPT !.halfmove_clock = @ + 1]

\* BoardInfo::reset_halfmove_clock
reset_halfmove_clock(inf) == [inf EXCEPT !.halfmove_clock = 0]

InfoInit ==
    /\ board = NewBoard(1, 1)
    /\ n_rows = 1
    /\ n_cols = 1
    /\ info = DefaultInfo
    /\ stack = <<>>
    /\ last = NoCall
    /\ probe = NoProbe

NextTurn ==
    /\ info.halfmove_clock < MaxClock
    /\ info.fullmove_number < MaxClock
    /\ info' = next_turn(info)
    /\ last' = [NoCall EXCEPT !.op = "next_turn", !.pre_info = info]
    /\ UNCHANGED <<board, n_rows, n_cols, stack, probe>>

ResetHalfmoveClock ==
    /\ info' = reset_halfmove_clock(info)
    /\ last' = [NoCall EXCEPT !.op = "reset_halfmove_clock", !.pre_info = info]
    /\ UNCHANGED <<board, n_rows, n_cols, stack, probe>>

InfoNext ==
    \/ NextTurn
    \/ ResetHalfmoveClock

InfoSpec == InfoInit /\ [][InfoNext]_vars

\* C26: the record starts as White's turn with clock 0 and full move 1;
\* every next_turn flips the turn, adds one to the half move clock and
\* adds one to the full move number exactly when it was made on Black's
\* turn; reset_halfmove_clock sets the clock to 0 and leaves the rest, and
\* the clock is 0 only at the start or right after a reset.
C26_TurnCounters ==
    /\ last.op = "none" => info = DefaultInfo
    /\ last.op = "next_turn" =>
          /\ info.turn = opposite(last.pre_info.turn)
          /\ info.halfmove_clock = last.pre_info.halfmove_clock + 1
          /\ info.fullmove_number =
                last.pre_info.fullmove_number
                    + (IF last.pre_info.turn = Black THEN 1 ELSE 0)
          /\ info.castling = last.pre_info.castling
          /\ info.en_passant = last.pre_info.en_passant
    /\ last.op = "reset_halfmove_clock" =>
          info = [last.pre_info EXCEPT !.halfmove_clock = 0]
    /\ info.halfmove_clock = 0 => last.op \in {"none", "reset_halfmove_clock"}

C26_Witness ==
    /\ last.op = "next_turn"
    /\ last.pre_info.turn = Black
    /\ info.fullmove_number = 3
    /\ info.halfmove_clock = 1


\* ---------------------------------------------------------------------
\* The activations of Castle::is_move_valid that a validation nests:
\* Castle -> is_check on the king's own cell -> can_move of the other side's
\* first piece -> Castle again.

\* the deepest nesting the runs follow
MaxNest == 4

NestRows == 3
NestCols == 3
NestCells == {Coord(r, c) : r \in 0..(NestRows - 1), c \in 0..(NestCols - 1)}

\* the two kings alone
NestBoards ==
    {[[c \in NestCells |-> None] EXCEPT ![w] = Some(Piece(White, King, w)),
                                        ![k] = Some(Piece(Black, King, k))] :
        <<w, k>> \in {pair \in NestCells \X NestCells :
                        /\ pair[1] # pair[2]
                        /\ pair[1].col = 1
                        /\ pair[2].col = 1}}

\* the rights of one colour: none, or one whose king lands on a cell of the
\* middle file and whose rook is recorded on the left edge of a row
NestRights ==
    {<<>>} \cup {<<[new_king |-> Coord(r, 1), rook |-> Coord(q, 0)]>> :
                    r \in 0..(NestRows - 1), q \in 0..(NestRows - 1)}

NestInit ==
    /\ board \in NestBoards
    /\ n_rows = NestRows
    /\ n_cols = NestCols
    /\ \E white \in NestRights, black \in NestRights :
          info = [DefaultInfo EXCEPT
                     !.castling = [c \in {White, Black} |->
                                      IF c = White THEN white ELSE black]]
    /\ stack = <<>>
    /\ last = NoCall
    /\ probe = NoProbe

\* The activation of Castle::is_move_valid(from, to) reaches the first round
\* of can_safely_traverse when a right is recorded for to, both directions
\* parse and the line to the rook is clear.  That round moves the king onto
\* its own cell (nothing changes) and asks is_check for it; is_check asks the
\* first piece of the other colour whether it can move there, and a king
\* whose one-step rules refuse tries its Castle rule: the nested activation,
\* one at most, as a sequence.
NestedCastleCall(from, to, b, inf) ==
    LET got == get_piece(b, from)
    IN  IF ~got.ok \/ ~IsSome(got.cell) THEN <<>>
        ELSE LET color == Unwrap(got.cell).color
                 rights == RightsOf(inf, color)
                 hits == {k \in 1..Len(rights) : rights[k].new_king = to}
             IN  IF hits = {} THEN <<>>
                 ELSE LET right == rights[CHOOSE k \in hits : \A j \in hits : k <= j]
                          ally_pieces == get_all_pieces(b, get_rows(b), get_cols(b),
                                                        opposite(color))
                      IN  IF \/ ~parse_direction(to, from).ok
                             \/ ~is_line_clear(from, right.rook, b)
                             \/ ~HasKing(b, opposite(color))
                          THEN <<>>
                          ELSE LET first == ally_pieces[1]
                                   rules == Moves(first.piece)
                               IN  IF \E k \in 1..Len(rules) :
                                         /\ rules[k].kind = "Castle"
                                         /\ \A j \in 1..(k - 1) :
                                               ~is_move_valid(rules[j], first.coord,
                                                              from, b, inf)
                                   THEN <<[from |-> first.coord, to |-> from]>>
                                   ELSE <<>>

\* a caller asks Castle::is_move_valid(from, to)
CastleEnter(from, to) ==
    /\ probe.op = "none"
    /\ stack = <<>>
    /\ stack' = <<[from |-> from, to |-> to]>>
    /\ probe' = [NoProbe EXCEPT !.op = "is_move_valid", !.phase = "call", !.pre = board]
    /\ UNCHANGED <<board, info, n_rows, n_cols, last>>

\* the running activation makes its nested call
CastleDescend ==
    /\ probe.phase = "call"
    /\ stack # <<>>
    /\ Len(stack) < MaxNest
    /\ LET top == stack[Len(stack)]
           nested == NestedCastleCall(top.from, top.to, board, info)
       IN  /\ nested # <<>>
           /\ stack' = Append(stack, nested[1])
    /\ UNCHANGED <<board, info, n_rows, n_cols, last, probe>>

\* Castle::is_move_valid returns false before the first round of
\* can_safely_traverse: no piece on from, no right recorded for to, a
\* direction that does not parse or a line to the rook that is not clear
CastleExitsEarly(from, to, b, inf) ==
    LET got == get_piece(b, from)
    IN  IF ~got.ok \/ ~IsSome(got.cell) THEN TRUE
        ELSE LET rights == RightsOf(inf, Unwrap(got.cell).color)
                 hits == {k \in 1..Len(rights) : rights[k].new_king = to}
             IN  IF hits = {} THEN TRUE
                 ELSE LET right == rights[CHOOSE k \in hits : \A j \in hits : k <= j]
                      IN  \/ ~parse_direction(to, from).ok
                          \/ ~is_line_clear(from, right.rook, b)

\* the running activation returns false before its first round; what its
\* caller does with the answer is not followed
CastleReturn ==
    /\ probe.phase = "call"
    /\ stack # <<>>
    /\ LET top == stack[Len(stack)]
       IN  /\ CastleExitsEarly(top.from, top.to, board, info)
           /\ probe' = [probe EXCEPT !.phase = "return", !.coord = top.from,
                                     !.res = "false"]
    /\ stack' = SubSeq(stack, 1, Len(stack) - 1)
    /\ UNCHANGED <<board, info, n_rows, n_cols, last>>

NestNext ==
    \/ /\ probe.op = "none"
       /\ \E from \in PiecesOn(board), to \in NestCells : CastleEnter(from, to)
    \/ CastleDescend
    \/ CastleReturn

NestSpec == NestInit /\ [][NestNext]_vars

C28_AllowedIffValid ==
    (probe.op = "allowed_moves" /\ IsSome(probe.pre[probe.from])) =>
        /\ \A to \in DOMAIN probe.pre :
              (to \in Range(probe.res))
                  <=> is_move_valid(probe.rule, probe.from, to, probe.pre, probe.pre_info)
        /\ \A to \in Range(probe.res) :
              /\ to # probe.from
              /\ in_bounds(probe.pre, to)
              /\ IsSome(probe.pre[to]) => Unwrap(probe.pre[to]).color # Mover.color


\* ---------------------------------------------------------------------
\* is_mate against is_check

\* C29: is_mate returns true only where is_check is true for the same cell
\* of the same position: a king that is not attacked is never reported mated,
\* whatever moves it and its side have.
C29_MateOnlyInCheck ==
    (probe.op = "is_mate" /\ probe.res = "true") =>
        is_check(probe.coord, probe.pre, info, EnemyPieces(probe.pre, probe.coord),
                 AllyPieces(probe.pre, probe.coord)).val = "true"


\* ---------------------------------------------------------------------
\* Castle against what stands on the king's and on the rook's square

\* a right whose rook origin lies past the edge of the king's row
FarSide == [new_king |-> KingSide.new_king, rook |-> Coord(BackRank, COLS)]

\* what stands on KingSide's rook square: nothing, the rook, or a piece that
\* is no rook of the mover's colour
CornerPieces ==
    {None, Some(Piece(White, Rook, KingSide.rook)), Some(Piece(Black, Rook, KingSide.rook)),
     Some(Piece(White, Bishop, KingSide.rook))}

\* the black king on the first row; on the king's square the white king, or
\* a white queen with the white king on the row between
RightBoards ==
    {[[NewBoard(CastleRows, COLS) EXCEPT ![Coord(0, 4)] = Some(Piece(Black, King, Coord(0, 4))),
                                         ![KingSide.rook] = corner]
         EXCEPT ![KingSquare] = Some(Piece(White, mover, KingSquare)),
                ![Coord(1, 0)] = IF mover = King THEN None
                                 ELSE Some(Piece(White, King, Coord(1, 0)))] :
        corner \in CornerPieces, mover \in {King, Queen}}

RightInit ==
    /\ board \in RightBoards
    /\ n_rows = CastleRows
    /\ n_cols = COLS
    /\ \E right \in {KingSide, FarSide} :
          info = [DefaultInfo EXCEPT !.castling = [c \in {White} |-> <<right>>]]
    /\ stack = <<>>
    /\ last = NoCall
    /\ probe = NoProbe

RightNext ==
    \/ /\ probe.op = "none"
       /\ \E to \in CastleTargets : CallCastleIsMoveValid(KingSquare, to)
    \/ /\ probe.op = "none"
       /\ CallCastleAllowedMoves(KingSquare)

RightSpec == RightInit /\ [][RightNext]_vars

\* a rook of the mover's colour stands on the right's rook origin
RookStands(right) ==
    /\ in_bounds(probe.pre, right.rook)
    /\ IsSome(probe.pre[right.rook])
    /\ Unwrap(probe.pre[right.rook]).piece = Rook
    /\ Unwrap(probe.pre[right.rook]).color = Mover.color

Entitled(to) ==
    /\ Mover.piece = King
    /\ \E right \in Recorded : right.new_king = to /\ RookStands(right)

\* C30: Castle accepts a destination only when the piece on from is a king
\* and a rook of its colour stands on the rook origin of a right recorded for
\* that destination; a right whose rook square is empty, holds another piece
\* or lies past the edge yields no castling move.
C30_CastleNeedsKingAndRook ==
    /\ (CastleProbed("is_move_valid") /\ probe.res = "true") => Entitled(probe.to)
    /\ CastleProbed("allowed_moves") => \A to \in Range(probe.res) : Entitled(to)

====
